---- MODULE Spec2Model ----
(***************************************************************************)
(* CR360 query pipeline: TextToSQLEngine.process_query with its            *)
(* collaborators (GeminiClient, DatabaseClient) and the chat endpoint      *)
(* that calls it.  Texts are sequences of one-character strings so that    *)
(* upper(), strip(), find(), slicing and the `in` test are computed, not   *)
(* assumed.                                                                *)
(***************************************************************************)
EXTENDS Integers, Sequences, FiniteSets, TLC

(***************************************************************************)
(* Python str primitives on character sequences                            *)
(***************************************************************************)
LOWER == <<"a","b","c","d","e","f","g","h","i","j","k","l","m","n","o","p","q","r","s","t","u","v","w","x","y","z">>

UPPER == <<"A","B","C","D","E","F","G","H","I","J","K","L","M","N","O","P","Q","R","S","T","U","V","W","X","Y","Z">>

WHITESPACE == {" ", "\n", "\t", "\r"}

Min(S) == CHOOSE x \in S : \A y \in S : x <= y

UpperChar(c) == IF \E i \in 1..26 : LOWER[i] = c THEN UPPER[CHOOSE i \in 1..26 : LOWER[i] = c] ELSE c

LowerChar(c) == IF \E i \in 1..26 : UPPER[i] = c THEN LOWER[CHOOSE i \in 1..26 : UPPER[i] = c] ELSE c

\* str.upper()
ToUpper(s) == [i \in 1..Len(s) |-> UpperChar(s[i])]

\* str.lower()
ToLower(s) == [i \in 1..Len(s) |-> LowerChar(s[i])]

\* str.strip(): drop leading and trailing whitespace
Strip(s) ==
    LET keep == {i \in 1..Len(s) : s[i] \notin WHITESPACE}
    IN  IF keep = {} THEN <<>>
        ELSE SubSeq(s, Min(keep), CHOOSE j \in keep : \A k \in keep : k <= j)

\* str.lstrip(chars)
LStripChars(s, chars) ==
    LET keep == {i \in 1..Len(s) : s[i] \notin chars}
    IN  IF keep = {} THEN <<>> ELSE SubSeq(s, Min(keep), Len(s))

\* str.strip(chars)
StripChars(s, chars) ==
    LET keep == {i \in 1..Len(s) : s[i] \notin chars}
    IN  IF keep = {} THEN <<>>
        ELSE SubSeq(s, Min(keep), CHOOSE j \in keep : \A k \in keep : k <= j)

\* str.startswith(p)
StartsWith(s, p) == Len(s) >= Len(p) /\ SubSeq(s, 1, Len(p)) = p

\* str.find(sub, start): 0-based index of the first occurrence at or after start, -1 if none
Find(s, sub, start) ==
    LET at == {i \in start..(Len(s) - Len(sub)) : SubSeq(s, i + 1, i + Len(sub)) = sub}
    IN  IF at = {} THEN -1 ELSE Min(at)

\* sub in s
Contains(s, sub) == Find(s, sub, 0) # -1

\* s[a:b] with Python's treatment of a negative or oversized end
Slice(s, a, b) ==
    LET e == IF b < 0 THEN (IF Len(s) + b < 0 THEN 0 ELSE Len(s) + b)
             ELSE (IF b > Len(s) THEN Len(s) ELSE b)
    IN  SubSeq(s, a + 1, e)

\* str.replace(old, new) for one-character old and new
ReplaceChar(s, old, new) == [i \in 1..Len(s) |-> IF s[i] = old THEN new ELSE s[i]]

\* str.split(sep) for a one-character separator
RECURSIVE Split(_, _)
Split(s, sep) ==
    LET at == {i \in 1..Len(s) : s[i] = sep}
    IN  IF at = {} THEN <<s>>
        ELSE <<SubSeq(s, 1, Min(at) - 1)>> \o Split(SubSeq(s, Min(at) + 1, Len(s)), sep)

\* sep.join(parts)
RECURSIVE Join(_, _)
Join(parts, sep) ==
    IF parts = <<>> THEN <<>>
    ELSE IF Len(parts) = 1 THEN parts[1]
    ELSE parts[1] \o sep \o Join(Tail(parts), sep)

(***************************************************************************)
(* String literals of the source.  The backquote character cannot be       *)
(* written in a TLA+ string; the element "<backtick>" stands for it.       *)
(***************************************************************************)
KW_SELECT == <<"S","E","L","E","C","T">>

KW_DROP == <<"D","R","O","P">>

KW_DELETE == <<"D","E","L","E","T","E">>

KW_TRUNCATE == <<"T","R","U","N","C","A","T","E">>

KW_ALTER == <<"A","L","T","E","R">>

KW_CREATE == <<"C","R","E","A","T","E">>

KW_INSERT == <<"I","N","S","E","R","T">>

KW_UPDATE == <<"U","P","D","A","T","E">>

KW_GRANT == <<"G","R","A","N","T">>

KW_REVOKE == <<"R","E","V","O","K","E">>

ERR_PARSE == <<"F","a","i","l","e","d"," ","t","o"," ","p","a","r","s","e"," ","S","Q","L">>

ERR_DANGEROUS == <<"D","a","n","g","e","r","o","u","s"," ","k","e","y","w","o","r","d"," ","d","e","t","e","c","t","e","d",":"," ">>

ERR_NOT_SELECT == <<"Q","u","e","r","y"," ","m","u","s","t"," ","b","e"," ","a"," ","S","E","L","E","C","T"," ","s","t","a","t","e","m","e","n","t">>

ERR_FORMAT == <<"S","Q","L"," ","f","o","r","m","a","t","t","i","n","g"," ","f","a","i","l","e","d"," ","-"," ","l","i","k","e","l","y"," ","s","y","n","t","a","x"," ","e","r","r","o","r">>

MSG_INVALID == <<"G","e","n","e","r","a","t","e","d"," ","S","Q","L"," ","i","s"," ","i","n","v","a","l","i","d",":"," ">>

MSG_SEP == <<","," ">>

MSG_AMBIGUOUS == <<"Y","o","u","r"," ","q","u","e","r","y"," ","i","s"," ","a","m","b","i","g","u","o","u","s","."," ","P","l","e","a","s","e"," ","c","l","a","r","i","f","y",".">>

MSG_PROCESS == <<"F","a","i","l","e","d"," ","t","o"," ","p","r","o","c","e","s","s"," ","q","u","e","r","y",":"," ">>

MSG_GENERATE == <<"F","a","i","l","e","d"," ","t","o"," ","g","e","n","e","r","a","t","e"," ","S","Q","L",":"," ">>

MSG_RESPONSE == <<"F","a","i","l","e","d"," ","t","o"," ","g","e","n","e","r","a","t","e"," ","r","e","s","p","o","n","s","e",":"," ">>

MSG_EMPTY == <<"E","m","p","t","y"," ","r","e","s","p","o","n","s","e"," ","f","r","o","m"," ","G","e","m","i","n","i"," ","A","P","I">>

MSG_EXEC == <<"S","Q","L"," ","e","x","e","c","u","t","i","o","n"," ","f","a","i","l","e","d",":"," ">>

MSG_DBOP == <<"D","a","t","a","b","a","s","e"," ","o","p","e","r","a","t","i","o","n"," ","f","a","i","l","e","d",":"," ">>

MSG_CONNECT == <<"F","a","i","l","e","d"," ","t","o"," ","c","o","n","n","e","c","t"," ","t","o"," ","P","o","s","t","g","r","e","S","Q","L",":"," ">>

FENCE_SQL == <<"<backtick>","<backtick>","<backtick>","s","q","l">>

FENCE == <<"<backtick>","<backtick>","<backtick>">>

LBL_EXPLANATION == <<"E","x","p","l","a","n","a","t","i","o","n",":">>

LBL_METRICS == <<"M","e","t","r","i","c","s"," ","u","s","e","d",":">>

W_DATE == <<"d","a","t","e">>

W_MONTH == <<"m","o","n","t","h">>

W_YEAR == <<"y","e","a","r">>

W_QUARTER == <<"q","u","a","r","t","e","r">>

W_REGION == <<"r","e","g","i","o","n">>

W_PRODUCT == <<"p","r","o","d","u","c","t">>

W_SEGMENT == <<"s","e","g","m","e","n","t">>

W_SUM == <<"s","u","m","(">>

W_AVG == <<"a","v","g","(">>

W_COUNT == <<"c","o","u","n","t","(">>

(***************************************************************************)
(* app/utils/exceptions.py                                                 *)
(***************************************************************************)
\* an exception value: its class and str(e)
Exc(kind, msg) == [kind |-> kind, msg |-> msg]

\* class -> direct base class
ExceptionBase ==
    [k \in {"CR360Exception", "DatabaseError", "LLMError", "SQLGenerationError",
            "SQLValidationError", "SQLExecutionError", "AmbiguousQueryError",
            "psycopg2.Error", "Exception"} |->
        CASE k = "CR360Exception"      -> "Exception"
          [] k = "DatabaseError"       -> "CR360Exception"
          [] k = "LLMError"            -> "CR360Exception"
          [] k = "SQLGenerationError"  -> "LLMError"
          [] k = "SQLValidationError"  -> "CR360Exception"
          [] k = "SQLExecutionError"   -> "DatabaseError"
          [] k = "AmbiguousQueryError" -> "CR360Exception"
          [] k = "psycopg2.Error"      -> "Exception"
          [] OTHER                     -> "Exception"]

\* isinstance(e, cls) for an exception of class k
RECURSIVE IsInstance(_, _)
IsInstance(k, cls) ==
    \/ k = cls
    \/ k # "Exception" /\ IsInstance(ExceptionBase[k], cls)

\* AmbiguousQueryError.__init__: options or [], questions or [] leave a
\* list, empty or not, as it is; process_query always passes lists
AmbiguousQueryError(message, options, questions) ==
    [kind |-> "AmbiguousQueryError", msg |-> message,
     options |-> options,
     questions |-> questions]

(***************************************************************************)
(* TextToSQLEngine._validate_sql                                           *)
(***************************************************************************)
dangerous_keywords == <<KW_DROP, KW_DELETE, KW_TRUNCATE, KW_ALTER, KW_CREATE,
                        KW_INSERT, KW_UPDATE, KW_GRANT, KW_REVOKE>>

\* sqlparse as installed.  No version is pinned, and the releases differ on a
\* text of nothing but whitespace: the older statement splitter yields it as
\* one statement, the newer one drops it and yields none.
SqlparseBuilds == {[drops_blank_statement |-> b] : b \in BOOLEAN}

\* The grouping pass of sqlparse recurses once per level of bracket nesting
\* and gives up beyond a depth set by the library or by the interpreter's
\* recursion limit (SQLParseError, RecursionError).  The texts of this model
\* are short, so the depth it tolerates is scaled down to MaxGroupingDepth.
MaxGroupingDepth == 2

RECURSIVE NestingDepth(_, _, _)
NestingDepth(s, level, deepest) ==
    IF s = <<>> THEN deepest
    ELSE IF Head(s) = "("
    THEN NestingDepth(Tail(s), level + 1, IF level + 1 > deepest THEN level + 1 ELSE deepest)
    ELSE IF Head(s) = ")" /\ level > 0 THEN NestingDepth(Tail(s), level - 1, deepest)
    ELSE NestingDepth(Tail(s), level, deepest)

\* sqlparse.parse(sql) raises instead of returning
sqlparse_raises(sql) == NestingDepth(sql, 0, 0) > MaxGroupingDepth

\* sqlparse.parse(sql) returns no statement
sqlparse_parse_empty(sql, build) ==
    sql = <<>> \/ (build.drops_blank_statement /\ Strip(sql) = <<>>)

\* sqlparse.format(sql, reindent, keyword_case) yields the empty text only
\* when nothing but whitespace is left to print
sqlparse_format_empty(sql) == Strip(sql) = <<>>

ERR_VALIDATION == <<"V","a","l","i","d","a","t","i","o","n"," ","e","r","r","o","r",":"," ">>

MSG_TOO_DEEP == <<"M","a","x","i","m","u","m"," ","g","r","o","u","p","i","n","g"," ","d","e","p","t","h"," ","e","x","c","e","e","d","e","d">>

\* faulty variant: the blocklist scan finds nothing
KeywordErrors_NoneFound(sql_upper, keywords) == <<>>

\* faulty variant: the scan stops at the first keyword it finds
RECURSIVE KeywordErrors_StopsAtFirst(_, _)
KeywordErrors_StopsAtFirst(sql_upper, keywords) ==
    IF keywords = <<>> THEN <<>>
    ELSE IF Contains(sql_upper, Head(keywords)) THEN <<ERR_DANGEROUS \o Head(keywords)>>
    ELSE KeywordErrors_StopsAtFirst(sql_upper, Tail(keywords))

RECURSIVE KeywordErrors(_, _)
KeywordErrors(sql_upper, keywords) ==
    IF keywords = <<>> THEN <<>>
    ELSE (IF Contains(sql_upper, Head(keywords))
          THEN <<ERR_DANGEROUS \o Head(keywords)>> ELSE <<>>)
         \o KeywordErrors(sql_upper, Tail(keywords))

\* faulty variant: the text is not trimmed before the test
SelectCheck_NoStrip(sql_upper) ==
    IF ~StartsWith(sql_upper, KW_SELECT) THEN <<ERR_NOT_SELECT>> ELSE <<>>

\* faulty variant: the test is left out
SelectCheck_Omitted(sql_upper) == <<>>

SelectCheck(sql_upper) ==
    IF ~StartsWith(Strip(sql_upper), KW_SELECT) THEN <<ERR_NOT_SELECT>> ELSE <<>>

\* faulty variant: the except clause reports no error
ValidationFailure_NoErrors(e) == [is_valid |-> FALSE, errors |-> <<>>]

\* the except clause of _validate_sql
ValidationFailure(e) == [is_valid |-> FALSE, errors |-> <<ERR_VALIDATION \o e>>]

_validate_sql(sql, build) ==
    IF sqlparse_raises(sql)
    THEN ValidationFailure(MSG_TOO_DEEP)
    ELSE IF sqlparse_parse_empty(sql, build)
    THEN [is_valid |-> FALSE, errors |-> <<ERR_PARSE>>]
    ELSE LET sql_upper == ToUpper(sql)
             errors == KeywordErrors(sql_upper, dangerous_keywords)
                       \o SelectCheck(sql_upper)
                       \o (IF sqlparse_format_empty(sql) THEN <<ERR_FORMAT>> ELSE <<>>)
         IN  [is_valid |-> Len(errors) = 0, errors |-> errors]

(***************************************************************************)
(* TextToSQLEngine._suggest_visualization                                  *)
(***************************************************************************)
AnyIn(words, text) == \E w \in words : Contains(text, w)

\* faulty variant: the comparison rule is tried before the time-series rule
_suggest_visualization_ComparisonFirst(sql, results) ==
    IF results = <<>> THEN "table"
    ELSE LET num_columns == Cardinality(DOMAIN results[1])
             num_rows == Len(results)
             sql_lower == ToLower(sql)
         IN  IF AnyIn({W_REGION, W_PRODUCT, W_SEGMENT}, sql_lower) /\ num_rows <= 10
                 THEN "bar"
             ELSE IF AnyIn({W_REGION, W_PRODUCT, W_SEGMENT}, sql_lower) /\ num_rows <= 50
                 THEN "horizontal_bar"
             ELSE IF AnyIn({W_DATE, W_MONTH, W_YEAR, W_QUARTER}, sql_lower) /\ num_rows > 1
                 THEN "line"
             ELSE IF AnyIn({W_SUM, W_AVG, W_COUNT}, sql_lower) /\ num_rows <= 10
                 THEN "bar"
             ELSE IF num_rows > 50 \/ num_columns > 5
                 THEN "table"
             ELSE "bar"

_suggest_visualization(sql, results) ==
    IF results = <<>> THEN "table"
    ELSE LET num_columns == Cardinality(DOMAIN results[1])
             num_rows == Len(results)
             sql_lower == ToLower(sql)
         IN  IF AnyIn({W_DATE, W_MONTH, W_YEAR, W_QUARTER}, sql_lower) /\ num_rows > 1
                 THEN "line"
             ELSE IF AnyIn({W_REGION, W_PRODUCT, W_SEGMENT}, sql_lower) /\ num_rows <= 10
                 THEN "bar"
             ELSE IF AnyIn({W_REGION, W_PRODUCT, W_SEGMENT}, sql_lower) /\ num_rows <= 50
                 THEN "horizontal_bar"
             ELSE IF AnyIn({W_SUM, W_AVG, W_COUNT}, sql_lower) /\ num_rows <= 10
                 THEN "bar"
             ELSE IF num_rows > 50 \/ num_columns > 5
                 THEN "table"
             ELSE "bar"

(***************************************************************************)
(* GeminiClient._parse_sql_response                                        *)
(***************************************************************************)
\* faulty variant: the first fence is taken whether or not a tagged one follows
ParseSql_FirstFence(response) ==
    IF Contains(response, FENCE)
    THEN LET sql_start == Find(response, FENCE, 0) + 3
             sql_end == Find(response, FENCE, sql_start)
             inner == Slice(response, sql_start, sql_end)
         IN  Strip(IF StartsWith(inner, <<"s","q","l">>) THEN SubSeq(inner, 4, Len(inner)) ELSE inner)
    ELSE <<>>

ParseSql(response) ==
    IF Contains(response, FENCE_SQL)
    THEN LET sql_start == Find(response, FENCE_SQL, 0) + 6
             sql_end == Find(response, FENCE, sql_start)
         IN  Strip(Slice(response, sql_start, sql_end))
    ELSE IF Contains(response, FENCE)
    THEN LET sql_start == Find(response, FENCE, 0) + 3
             sql_end == Find(response, FENCE, sql_start)
         IN  Strip(Slice(response, sql_start, sql_end))
    ELSE <<>>

ParseExplanation(response) ==
    IF Contains(response, LBL_EXPLANATION)
    THEN LET exp_start == Find(response, LBL_EXPLANATION, 0) + 12
             found == Find(response, LBL_METRICS, exp_start)
             exp_end == IF found = -1 THEN Len(response) ELSE found
         IN  Strip(Slice(response, exp_start, exp_end))
    ELSE <<>>

RECURSIVE CleanMetrics(_)
CleanMetrics(tokens) ==
    IF tokens = <<>> THEN <<>>
    ELSE (IF Strip(Head(tokens)) # <<>>
          THEN <<Strip(LStripChars(Strip(Head(tokens)), {"-", "*"}))>> ELSE <<>>)
         \o CleanMetrics(Tail(tokens))

ParseMetrics(response) ==
    IF Contains(response, LBL_METRICS)
    THEN LET metrics_start == Find(response, LBL_METRICS, 0) + 13
             metrics_text == Strip(Slice(response, metrics_start, Len(response)))
         IN  CleanMetrics(Split(ReplaceChar(metrics_text, "\n", ","), ","))
    ELSE <<>>

_parse_sql_response(response) ==
    [sql |-> ParseSql(response),
     explanation |-> ParseExplanation(response),
     metrics_used |-> ParseMetrics(response)]

(***************************************************************************)
(* GeminiClient.generate_sql: the prompt built from the conversation       *)
(* history and the query                                                   *)
(***************************************************************************)
P_PREVIOUS == <<"P","r","e","v","i","o","u","s"," ","c","o","n","v","e","r","s","a","t","i","o","n",":">>

P_USER == <<"U","s","e","r",":"," ">>

P_ASSISTANT == <<"A","s","s","i","s","t","a","n","t",":"," ">>

P_CURRENT == <<"C","u","r","r","e","n","t"," ","q","u","e","r","y",":"," ">>

\* conversation_history[-3:]
PROMPT_TURNS == 3

\* turn.get(key, '')
TurnGet(turn, key) == IF key \in DOMAIN turn THEN turn[key] ELSE <<>>

\* faulty variant: the slice takes the first turns of the history
LastTurns_First(history) == SubSeq(history, 1, Min({PROMPT_TURNS, Len(history)}))

\* conversation_history[-3:]
LastTurns(history) ==
    SubSeq(history,
           IF Len(history) > PROMPT_TURNS THEN Len(history) - PROMPT_TURNS + 1 ELSE 1,
           Len(history))

RECURSIVE TurnLines(_)
TurnLines(turns) ==
    IF turns = <<>> THEN <<>>
    ELSE <<P_USER \o TurnGet(Head(turns), "user"), P_ASSISTANT \o TurnGet(Head(turns), "assistant")>>
         \o TurnLines(Tail(turns))

\* prompt_parts joined by newlines
generate_sql_prompt(natural_language_query, conversation_history) ==
    LET prompt_parts ==
            (IF conversation_history # <<>>
             THEN <<P_PREVIOUS>> \o TurnLines(LastTurns(conversation_history)) \o <<<<>>>>
             ELSE <<>>)
            \o <<P_CURRENT \o natural_language_query>>
    IN  Join(prompt_parts, <<"\n">>)

(***************************************************************************)
(* json.loads and re.search as _parse_ambiguity_response uses them.  A     *)
(* decoded value carries its Python type: str, int, list, dict (an ordered *)
(* sequence of key/value entries) or one of true, false, null.             *)
(***************************************************************************)
JStr(chars) == [t |-> "str", v |-> chars]

JNum(n) == [t |-> "int", v |-> n]

JList(items) == [t |-> "list", v |-> items]

JDict(entries) == [t |-> "dict", v |-> entries]

JLit(name) == [t |-> "lit", v |-> name]

DIGITS == <<"0","1","2","3","4","5","6","7","8","9">>

IsDigit(c) == \E d \in DOMAIN DIGITS : DIGITS[d] = c

DigitValue(c) == (CHOOSE d \in DOMAIN DIGITS : DIGITS[d] = c) - 1

\* a decoding step: the value and the 1-based position after it, or a JSONDecodeError
JOk(v, next) == [ok |-> TRUE, v |-> v, next |-> next]

JErr == [ok |-> FALSE, v |-> JLit("null"), next |-> 0]

RECURSIVE SkipWs(_, _)
SkipWs(s, i) == IF i <= Len(s) /\ s[i] \in WHITESPACE THEN SkipWs(s, i + 1) ELSE i

\* the characters of a string literal from position i (after the opening
\* quote) up to the closing quote; a raw control character ends the decoding
RECURSIVE ScanString(_, _, _)
ScanString(s, i, acc) ==
    IF i > Len(s) THEN JErr
    ELSE IF s[i] = "\"" THEN JOk(JStr(acc), i + 1)
    ELSE IF s[i] \in {"\n", "\t", "\r"} THEN JErr
    ELSE IF s[i] = "\\"
    THEN IF i + 1 > Len(s) THEN JErr
         ELSE IF s[i + 1] \in {"\"", "\\", "/"} THEN ScanString(s, i + 2, Append(acc, s[i + 1]))
         ELSE IF s[i + 1] = "n" THEN ScanString(s, i + 2, Append(acc, "\n"))
         ELSE IF s[i + 1] = "t" THEN ScanString(s, i + 2, Append(acc, "\t"))
         ELSE JErr
    ELSE ScanString(s, i + 1, Append(acc, s[i]))

RECURSIVE ScanNumber(_, _, _)
ScanNumber(s, i, n) ==
    IF i <= Len(s) /\ IsDigit(s[i]) THEN ScanNumber(s, i + 1, 10 * n + DigitValue(s[i]))
    ELSE JOk(JNum(n), i)

RECURSIVE ScanValue(_, _)
RECURSIVE ScanItems(_, _, _)
RECURSIVE ScanEntries(_, _, _)

\* the items of an array from position i, after the first one has been found to exist
ScanItems(s, i, acc) ==
    LET item == ScanValue(s, i)
        j == SkipWs(s, item.next)
    IN  IF ~item.ok \/ j > Len(s) THEN JErr
        ELSE IF s[j] = "," THEN ScanItems(s, SkipWs(s, j + 1), Append(acc, item.v))
        ELSE IF s[j] = "]" THEN JOk(JList(Append(acc, item.v)), j + 1)
        ELSE JErr

\* the entries of an object from position i, where a key must start
ScanEntries(s, i, acc) ==
    IF i > Len(s) \/ s[i] # "\"" THEN JErr
    ELSE LET key == ScanString(s, i + 1, <<>>)
             colon == SkipWs(s, key.next)
         IN  IF ~key.ok \/ colon > Len(s) \/ s[colon] # ":" THEN JErr
             ELSE LET value == ScanValue(s, SkipWs(s, colon + 1))
                      j == SkipWs(s, value.next)
                      entries == Append(acc, [key |-> key.v.v, value |-> value.v])
                  IN  IF ~value.ok \/ j > Len(s) THEN JErr
                      ELSE IF s[j] = "," THEN ScanEntries(s, SkipWs(s, j + 1), entries)
                      ELSE IF s[j] = "}" THEN JOk(JDict(entries), j + 1)
                      ELSE JErr

ScanValue(s, i) ==
    IF i > Len(s) THEN JErr
    ELSE IF s[i] = "\"" THEN ScanString(s, i + 1, <<>>)
    ELSE IF IsDigit(s[i]) THEN ScanNumber(s, i, 0)
    ELSE IF s[i] = "["
    THEN LET j == SkipWs(s, i + 1)
         IN  IF j <= Len(s) /\ s[j] = "]" THEN JOk(JList(<<>>), j + 1) ELSE ScanItems(s, j, <<>>)
    ELSE IF s[i] = "{"
    THEN LET j == SkipWs(s, i + 1)
         IN  IF j <= Len(s) /\ s[j] = "}" THEN JOk(JDict(<<>>), j + 1) ELSE ScanEntries(s, j, <<>>)
    ELSE IF i + 3 <= Len(s) /\ SubSeq(s, i, i + 3) = <<"t","r","u","e">> THEN JOk(JLit("true"), i + 4)
    ELSE IF i + 3 <= Len(s) /\ SubSeq(s, i, i + 3) = <<"n","u","l","l">> THEN JOk(JLit("null"), i + 4)
    ELSE IF i + 4 <= Len(s) /\ SubSeq(s, i, i + 4) = <<"f","a","l","s","e">> THEN JOk(JLit("false"), i + 5)
    ELSE JErr

\* json.loads(s): the whole text must be one value
json_loads(s) ==
    LET r == ScanValue(s, SkipWs(s, 1))
    IN  IF r.ok /\ SkipWs(s, r.next) = Len(s) + 1 THEN r ELSE JErr

\* re.search(r'\[[\s\S]*\]', text): from the first opening bracket to the
\* last closing bracket after it; <<>> when there is no match
SearchJsonArray(text) ==
    LET opens == {i \in 1..Len(text) : text[i] = "["}
    IN  IF opens = {} THEN <<>>
        ELSE LET first == Min(opens)
                 closes == {i \in (first + 1)..Len(text) : text[i] = "]"}
             IN  IF closes = {} THEN <<>>
                 ELSE SubSeq(text, first, CHOOSE j \in closes : \A k \in closes : k <= j)

(***************************************************************************)
(* GeminiClient._parse_ambiguity_response                                  *)
(***************************************************************************)
LBL_AMBIGUOUS_YES == <<"A","m","b","i","g","u","o","u","s",":"," ","Y","e","s">>

LBL_REASONS == <<"R","e","a","s","o","n","s",":">>

LBL_SUGGESTIONS == <<"S","u","g","g","e","s","t","i","o","n","s",":">>

LBL_QUESTIONS == <<"Q","u","e","s","t","i","o","n","s",":">>

K_question_id == <<"q","u","e","s","t","i","o","n","_","i","d">>

K_question_text == <<"q","u","e","s","t","i","o","n","_","t","e","x","t">>

K_options == <<"o","p","t","i","o","n","s">>

\* [x.strip('- ').strip() for x in lines if x.strip()]
RECURSIVE CleanBullets(_)
CleanBullets(lines) ==
    IF lines = <<>> THEN <<>>
    ELSE (IF Strip(Head(lines)) # <<>>
          THEN <<Strip(StripChars(Head(lines), {"-", " "}))>> ELSE <<>>)
         \o CleanBullets(Tail(lines))

ParseReasons(response) ==
    IF Contains(response, LBL_REASONS)
    THEN LET reasons_start == Find(response, LBL_REASONS, 0) + 8
             at_suggestions == Find(response, LBL_SUGGESTIONS, reasons_start)
             at_questions == Find(response, LBL_QUESTIONS, reasons_start)
             reasons_end == IF at_suggestions # -1 THEN at_suggestions
                            ELSE IF at_questions # -1 THEN at_questions
                            ELSE Len(response)
         IN  CleanBullets(Split(Strip(Slice(response, reasons_start, reasons_end)), "\n"))
    ELSE <<>>

ParseSuggestions(response) ==
    IF Contains(response, LBL_SUGGESTIONS)
    THEN LET suggestions_start == Find(response, LBL_SUGGESTIONS, 0) + 12
             at_questions == Find(response, LBL_QUESTIONS, suggestions_start)
             suggestions_end == IF at_questions # -1 THEN at_questions ELSE Len(response)
         IN  CleanBullets(Split(Strip(Slice(response, suggestions_start, suggestions_end)), "\n"))
    ELSE <<>>

\* key in q, for the Python types on which the test is defined
HasKey(q, key) ==
    IF q.t = "dict" THEN \E i \in DOMAIN q.v : q.v[i].key = key
    ELSE IF q.t = "str" THEN Contains(q.v, key)
    ELSE \E i \in DOMAIN q.v : q.v[i].t = "str" /\ q.v[i].v = key

\* q[key] of a dict: the value of the last entry with that key
DictGet(q, key) ==
    q.v[CHOOSE i \in DOMAIN q.v : q.v[i].key = key /\ \A j \in DOMAIN q.v : q.v[j].key = key => j <= i].value

\* the structure check of one element: "ok", "invalid" (the list is emptied and
\* the loop left) or "raises" (a TypeError, caught by the except clause)
CheckQuestion(q) ==
    IF q.t \in {"int", "lit"} THEN "raises"
    ELSE IF ~(HasKey(q, K_question_id) /\ HasKey(q, K_question_text) /\ HasKey(q, K_options))
    THEN "invalid"
    ELSE IF q.t # "dict" THEN "raises"
    ELSE IF DictGet(q, K_options).t # "list" \/ Len(DictGet(q, K_options).v) < 2 THEN "invalid"
    ELSE "ok"

\* a decoded value as the Python object the callers see: text as characters,
\* a list as a sequence
RECURSIVE Untag(_)
Untag(x) ==
    IF x.t = "str" THEN x.v
    ELSE IF x.t = "list" THEN [i \in DOMAIN x.v |-> Untag(x.v[i])]
    ELSE x

\* a dict that passed the structure check, with the three keys every reader uses
QuestionDict(q) ==
    [question_id |-> Untag(DictGet(q, K_question_id)),
     question_text |-> Untag(DictGet(q, K_question_text)),
     options |-> Untag(DictGet(q, K_options))]

\* faulty variant: the elements that fail the check are dropped and the rest kept
ValidateQuestions_KeepsWellFormed(decoded) ==
    LET kept == SelectSeq(decoded, LAMBDA q : CheckQuestion(q) = "ok")
    IN  [i \in DOMAIN kept |-> QuestionDict(kept[i])]

\* the for loop over the decoded list
ValidateQuestions(decoded) ==
    IF \A i \in DOMAIN decoded : CheckQuestion(decoded[i]) = "ok"
    THEN [i \in DOMAIN decoded |-> QuestionDict(decoded[i])]
    ELSE <<>>

ParseQuestions(response) ==
    IF Contains(response, LBL_QUESTIONS)
    THEN LET questions_start == Find(response, LBL_QUESTIONS, 0) + 10
             questions_text == Strip(Slice(response, questions_start, Len(response)))
             json_str == SearchJsonArray(questions_text)
         IN  IF json_str = <<>> THEN <<>>
             ELSE LET decoded == json_loads(json_str)
                  IN  IF ~decoded.ok THEN <<>> ELSE ValidateQuestions(decoded.v.v)
    ELSE <<>>

\* faulty variant: the verdict is looked for without regard to case
_parse_ambiguity_response_AnyCase(response) ==
    [is_ambiguous |-> Contains(ToLower(response), ToLower(LBL_AMBIGUOUS_YES)),
     reasons |-> ParseReasons(response),
     suggestions |-> ParseSuggestions(response),
     questions |-> ParseQuestions(response)]

_parse_ambiguity_response(response) ==
    [is_ambiguous |-> Contains(response, LBL_AMBIGUOUS_YES),
     reasons |-> ParseReasons(response),
     suggestions |-> ParseSuggestions(response),
     questions |-> ParseQuestions(response)]

(***************************************************************************)
(* Inputs: what callers and the environment (model API, driver) supply     *)
(***************************************************************************)
Queries == {<<"q","1">>, <<"q","2","?">>}

\* conversation_history as process_query receives it; <<>> is the absent/empty
\* history (every use in the source is a truthiness test)
Histories == {<<>>, <<[user |-> <<"q","1">>, assistant |-> <<>>]>>}

\* texts the hosted model returns to a synthesis prompt
R_ok == <<"<backtick>","<backtick>","<backtick>","s","q","l","\n","S","E","L","E","C","T"," ","1","\n","<backtick>","<backtick>","<backtick>","\n","E","x","p","l","a","n","a","t","i","o","n",":"," ","e","\n","M","e","t","r","i","c","s"," ","u","s","e","d",":"," ","a",","," ","b">>

R_plain == <<"n","o"," ","s","q","l"," ","h","e","r","e">>

R_drop == <<"<backtick>","<backtick>","<backtick>","s","q","l","\n","D","R","O","P"," ","T","A","B","L","E"," ","t","\n","<backtick>","<backtick>","<backtick>">>

R_lower == <<"<backtick>","<backtick>","<backtick>","\n"," ","s","e","l","e","c","t"," ","r","e","g","i","o","n"," ","f","r","o","m"," ","t","\n","<backtick>","<backtick>","<backtick>","\n","E","x","p","l","a","n","a","t","i","o","n",":"," ","x">>

R_upd == <<"<backtick>","<backtick>","<backtick>","s","q","l","\n","S","E","L","E","C","T"," ","u","p","d","a","t","e","d","_","a","t"," ","F","R","O","M"," ","t","\n","<backtick>","<backtick>","<backtick>">>

R_multi == <<"<backtick>","<backtick>","<backtick>","s","q","l","\n","S","E","L","E","C","T"," ","1",";"," ","D","E","L","E","T","E"," ","F","R","O","M"," ","t","\n","<backtick>","<backtick>","<backtick>","\n","M","e","t","r","i","c","s"," ","u","s","e","d",":","\n","-"," ","m","1","\n","*"," ","m","2">>

R_emptyfence == <<"<backtick>","<backtick>","<backtick>","s","q","l","\n","<backtick>","<backtick>","<backtick>">>

R_agg == <<"<backtick>","<backtick>","<backtick>","s","q","l","\n","S","E","L","E","C","T"," ","s","u","m","(","x",")"," ","F","R","O","M"," ","t","\n","<backtick>","<backtick>","<backtick>">>

R_with == <<"<backtick>","<backtick>","<backtick>","s","q","l","\n","W","I","T","H"," ","c"," ","A","S"," ","(","S","E","L","E","C","T"," ","1",")"," ","S","E","L","E","C","T"," ","2","\n","<backtick>","<backtick>","<backtick>">>

SynthResponses == {R_ok, R_plain, R_drop, R_lower, R_upd, R_multi, R_emptyfence, R_agg, R_with}

\* outcome of model.generate_content: a text (possibly empty) or a transport failure
ModelOutcomes ==
    {[fails |-> FALSE, text |-> t, msg |-> <<>>] : t \in SynthResponses \cup {<<>>}}
    \cup {[fails |-> TRUE, text |-> <<>>, msg |-> <<"t","i","m","e","o","u","t">>]}

\* clarification questions as the ambiguity detector hands them on
QN_period == [question_id |-> <<"t","i","m","e","_","p","e","r","i","o","d">>, question_text |-> <<"W","h","i","c","h"," ","p","e","r","i","o","d","?">>,
              options |-> <<<<"Q","4">>, <<"Q","3">>>>]

QN_metric == [question_id |-> <<"m","e","t","r","i","c","_","t","y","p","e">>, question_text |-> <<"W","h","i","c","h"," ","m","e","t","r","i","c","?">>,
              options |-> <<<<"n","e","t">>, <<"g","r","o","s","s">>, <<"b","o","t","h">>>>]

\* results of detect_ambiguity; the record without a questions key is the
\* legacy result shape that process_query reads with .get('questions', [])
AmbiguityResults ==
    {[is_ambiguous |-> FALSE, reasons |-> <<>>, suggestions |-> <<>>, questions |-> <<>>],
     [is_ambiguous |-> TRUE, reasons |-> <<"r1">>, suggestions |-> <<"s1">>],
     [is_ambiguous |-> TRUE, reasons |-> <<"r1">>, suggestions |-> <<"s1", "s2">>, questions |-> <<QN_period>>],
     [is_ambiguous |-> TRUE, reasons |-> <<>>, suggestions |-> <<>>, questions |-> <<QN_metric, QN_period>>]}

\* rows the driver returns: row i of an n-row, c-column result maps each column to i
Rows(n, c) == [i \in 1..n |-> [k \in 1..c |-> i]]

ResultSets ==
    {Rows(0, 1), Rows(1, 6), Rows(2, 1), Rows(11, 1), Rows(51, 1),
     <<[k \in 1..1 |-> 2], [k \in 1..1 |-> 1]>>}

\* what the driver does during one execute_query call
DriverOutcomes ==
    {[connect_ok |-> FALSE, exec |-> "ok", conn_lost |-> FALSE, rollback_fails |-> FALSE,
      rows |-> <<>>, msg |-> <<>>]}
    \cup {[connect_ok |-> TRUE, exec |-> "ok", conn_lost |-> FALSE, rollback_fails |-> FALSE,
           rows |-> r, msg |-> <<>>] : r \in ResultSets}
    \cup {[connect_ok |-> TRUE, exec |-> "driver_error", conn_lost |-> l, rollback_fails |-> f,
           rows |-> <<>>, msg |-> <<"r","e","l","a","t","i","o","n"," ","m","i","s","s","i","n","g">>] :
           l \in BOOLEAN, f \in BOOLEAN}
    \cup {[connect_ok |-> TRUE, exec |-> "other_error", conn_lost |-> FALSE, rollback_fails |-> FALSE,
           rows |-> <<>>,
           msg |-> <<"b","a","d"," ","p","a","r","a","m","s">>]}

\* statements other callers of the Data Access Layer run (test_connection, scripts)
DirectSQL == {<<"S","E","L","E","C","T"," ","1"," ","a","s"," ","t","e","s","t">>, <<"D","E","L","E","T","E"," ","F","R","O","M"," ","t">>}

(***************************************************************************)
(* Call results: a returned value or a raised exception                    *)
(***************************************************************************)
NoExc == [kind |-> "None", msg |-> <<>>]

Return(v) == [ok |-> TRUE, value |-> v, exc |-> NoExc]

Raise(e) == [ok |-> FALSE, value |-> <<>>, exc |-> e]

(***************************************************************************)
(* GeminiClient.generate / generate_sql / detect_ambiguity                 *)
(***************************************************************************)
generate(m) ==
    IF m.fails THEN Raise(Exc("LLMError", MSG_RESPONSE \o m.msg))
    ELSE IF m.text = <<>> THEN Raise(Exc("LLMError", MSG_RESPONSE \o MSG_EMPTY))
    ELSE Return(m.text)

generate_sql(m) ==
    LET response == generate(m)
    IN  IF response.ok THEN Return(_parse_sql_response(response.value))
        ELSE Raise(Exc("LLMError", MSG_GENERATE \o response.exc.msg))

(***************************************************************************)
(* DatabaseClient.get_pg_connection / execute_query / close                *)
(***************************************************************************)
\* faulty variant: a connection is made for every call
NeedsConnection_Always(conn) == TRUE

\* get_pg_connection: self._pg_connection is None or self._pg_connection.closed
NeedsConnection(conn) == conn = "None" \/ conn = "closed"

IsSelect(sql) == StartsWith(ToUpper(Strip(sql)), KW_SELECT)

\* one execute_query(sql, params) call on a client whose cached connection is
\* conn ("None", "open" or "closed") with an open transaction iff txn
execute_query(sql, params, conn, txn, d) ==
    LET connect == NeedsConnection(conn)
    IN  IF connect /\ ~d.connect_ok
        THEN [ret |-> Raise(Exc("DatabaseError", MSG_DBOP \o MSG_CONNECT \o <<"r","e","f","u","s","e","d">>)),
              conn |-> conn, txn |-> txn, branch |-> "none", opened |-> FALSE, rollback |-> FALSE]
        ELSE LET txn1 == IF connect THEN FALSE ELSE txn
             IN  CASE d.exec = "driver_error" /\ ~d.conn_lost /\ d.rollback_fails ->
                        \* rollback() raises inside the except block: the driver's
                        \* error leaves execute_query as it is
                        [ret |-> Raise(Exc("psycopg2.Error", d.msg)),
                         conn |-> "open", txn |-> TRUE, branch |-> "none",
                         opened |-> connect, rollback |-> FALSE]
                   [] d.exec = "driver_error" ->
                        [ret |-> Raise(Exc("SQLExecutionError", MSG_EXEC \o d.msg)),
                         conn |-> IF d.conn_lost THEN "closed" ELSE "open",
                         txn |-> FALSE, branch |-> "none", opened |-> connect,
                         rollback |-> ~d.conn_lost]
                   [] d.exec = "other_error" ->
                        [ret |-> Raise(Exc("DatabaseError", MSG_DBOP \o d.msg)),
                         conn |-> "open", txn |-> txn1, branch |-> "none",
                         opened |-> connect, rollback |-> FALSE]
                   [] OTHER ->
                        IF IsSelect(sql)
                        THEN [ret |-> Return(d.rows), conn |-> "open", txn |-> TRUE,
                              branch |-> "fetch", opened |-> connect, rollback |-> FALSE]
                        ELSE [ret |-> Return(<<>>), conn |-> "open", txn |-> FALSE,
                              branch |-> "commit", opened |-> connect, rollback |-> FALSE]

(***************************************************************************)
(* ContextLoader: the semantic model document, load, reload and the text   *)
(* handed to the prompts.  A document is an ordered mapping of section     *)
(* names to ordered mappings of names to texts, as yaml.safe_load builds   *)
(* it from the file.                                                       *)
(***************************************************************************)
SEC_METRICS == <<"m","e","t","r","i","c","s">>

SEC_DIMENSIONS == <<"d","i","m","e","n","s","i","o","n","s">>

YAML_COLON == <<":">>

YAML_EMPTY_MAP == <<"{","}">>

YAML_INDENT == <<" "," ">>

MSG_NOTFOUND == <<"F","a","i","l","e","d"," ","t","o"," ","l","o","a","d"," ","c","o","n","t","e","x","t",":"," ","C","o","n","t","e","x","t"," ","f","i","l","e"," ","n","o","t"," ","f","o","u","n","d",":"," ">>

MSG_YAML == <<"F","a","i","l","e","d"," ","t","o"," ","p","a","r","s","e"," ","Y","A","M","L",":"," ">>

MSG_MISSING == <<"F","a","i","l","e","d"," ","t","o"," ","l","o","a","d"," ","c","o","n","t","e","x","t",":"," ","M","i","s","s","i","n","g"," ","r","e","q","u","i","r","e","d"," ","s","e","c","t","i","o","n","s"," ","i","n"," ","s","e","m","a","n","t","i","c"," ","m","o","d","e","l",":"," ","[","'","m","e","t","r","i","c","s","'","]">>

CONTEXT_FILE_PATH == <<"c","o","n","t","e","x","t",".","y","a","m","l">>

Entry(k, v) == [key |-> k, value |-> v]

DOC_A == <<Entry(SEC_METRICS, <<Entry(<<"n","p","l">>, <<"b","a","d"," ","l","o","a","n","s">>)>>)>>

DOC_B == <<Entry(SEC_METRICS, <<Entry(<<"n","p","l">>, <<"b","a","d"," ","l","o","a","n","s">>), Entry(<<"d","p","d">>, <<"d","a","y","s">>)>>),
           Entry(SEC_DIMENSIONS, <<>>)>>

DOC_NoMetrics == <<Entry(SEC_DIMENSIONS, <<Entry(<<"r","e","g","i","o","n">>, <<"r">>)>>)>>

\* what the file at context_file_path holds when load opens it
ContextFiles ==
    {[exists |-> TRUE, well_formed |-> TRUE, document |-> d] : d \in {DOC_A, DOC_B, DOC_NoMetrics}}
    \cup {[exists |-> TRUE, well_formed |-> FALSE, document |-> <<>>],
          [exists |-> FALSE, well_formed |-> FALSE, document |-> <<>>]}

\* the keys of an ordered mapping
Keys(mapping) == {mapping[i].key : i \in DOMAIN mapping}

\* yaml.dump(..., default_flow_style=False, sort_keys=False) of the inner mapping
RECURSIVE DumpEntries(_)
DumpEntries(entries) ==
    IF entries = <<>> THEN <<>>
    ELSE YAML_INDENT \o Head(entries).key \o YAML_COLON \o <<" ">> \o Head(entries).value
         \o <<"\n">> \o DumpEntries(Tail(entries))

RECURSIVE DumpSections(_)
DumpSections(doc) ==
    IF doc = <<>> THEN <<>>
    ELSE Head(doc).key \o YAML_COLON
         \o (IF Head(doc).value = <<>> THEN <<" ">> \o YAML_EMPTY_MAP \o <<"\n">>
             ELSE <<"\n">> \o DumpEntries(Head(doc).value))
         \o DumpSections(Tail(doc))

yaml_dump(doc) == IF doc = <<>> THEN YAML_EMPTY_MAP \o <<"\n">> ELSE DumpSections(doc)

\* ContextLoader.__init__
NewContextLoader == [context |-> <<>>, _loaded |-> FALSE]

\* ContextLoader._validate_structure: the sections that are missing
_validate_structure(context) == IF SEC_METRICS \in Keys(context) THEN <<>> ELSE <<SEC_METRICS>>

\* ContextLoader.load on the file as it is now: the loader afterwards and
\* the returned document or the ContextLoadError
load(loader, file) ==
    IF ~file.exists
    THEN [loader |-> loader, ret |-> Raise(Exc("ContextLoadError", MSG_NOTFOUND \o CONTEXT_FILE_PATH))]
    ELSE IF ~file.well_formed
    THEN [loader |-> loader, ret |-> Raise(Exc("ContextLoadError", MSG_YAML))]
    ELSE LET read == [loader EXCEPT !.context = file.document]
         IN  IF _validate_structure(read.context) # <<>>
             THEN [loader |-> read, ret |-> Raise(Exc("ContextLoadError", MSG_MISSING))]
             ELSE [loader |-> [read EXCEPT !._loaded = TRUE], ret |-> Return(file.document)]

\* ContextLoader.reload
reload(loader, file) == load([loader EXCEPT !._loaded = FALSE, !.context = <<>>], file)

\* ContextLoader.get_context_for_llm: lazy load, then the document rendered as text
get_context_for_llm(loader, file) ==
    LET l == IF loader._loaded THEN [loader |-> loader, ret |-> Return(loader.context)]
             ELSE load(loader, file)
    IN  IF l.ret.ok THEN [loader |-> l.loader, ret |-> Return(yaml_dump(l.loader.context))]
        ELSE l

(***************************************************************************)
(* ContextLoader.search_metrics_by_synonym.  The metrics section maps a    *)
(* category to a mapping of metric names to definitions, or to a value     *)
(* that is no mapping; a definition without synonyms or description reads  *)
(* as one with none, as metric_def.get does.                               *)
(***************************************************************************)
MetricDef(synonyms, description) == [synonyms |-> synonyms, description |-> description]

Category(metrics) == [is_dict |-> TRUE, metrics |-> metrics]

NotAMapping == [is_dict |-> FALSE, metrics |-> <<>>]

\* any(query_lower in syn.lower() for syn in synonyms)
AnySynonym(query_lower, synonyms) ==
    \E i \in DOMAIN synonyms : Contains(ToLower(synonyms[i]), query_lower)

\* {**metric_def, 'name': metric_name, 'category': category}
Match(category, metric_name, metric_def) ==
    [name |-> metric_name, category |-> category, synonyms |-> metric_def.synonyms,
     description |-> metric_def.description]

\* faulty variant: the three tests each append, with no continue between them
MatchesOf_PerCriterion(query_lower, category, metric_name, metric_def) ==
    (IF Contains(ToLower(metric_name), query_lower)
     THEN <<Match(category, metric_name, metric_def)>> ELSE <<>>)
    \o (IF AnySynonym(query_lower, metric_def.synonyms)
        THEN <<Match(category, metric_name, metric_def)>> ELSE <<>>)
    \o (IF Contains(ToLower(metric_def.description), query_lower)
        THEN <<Match(category, metric_name, metric_def)>> ELSE <<>>)

\* the body of the inner loop: what one metric adds to matches
MatchesOf(query_lower, category, metric_name, metric_def) ==
    IF Contains(ToLower(metric_name), query_lower)
    THEN <<Match(category, metric_name, metric_def)>>
    ELSE IF AnySynonym(query_lower, metric_def.synonyms)
    THEN <<Match(category, metric_name, metric_def)>>
    ELSE IF Contains(ToLower(metric_def.description), query_lower)
    THEN <<Match(category, metric_name, metric_def)>>
    ELSE <<>>

RECURSIVE SearchCategory(_, _, _)
SearchCategory(query_lower, category, category_metrics) ==
    IF category_metrics = <<>> THEN <<>>
    ELSE MatchesOf(query_lower, category, Head(category_metrics).key, Head(category_metrics).value)
         \o SearchCategory(query_lower, category, Tail(category_metrics))

RECURSIVE SearchMetrics(_, _)
SearchMetrics(query_lower, metrics) ==
    IF metrics = <<>> THEN <<>>
    ELSE (IF Head(metrics).value.is_dict
          THEN SearchCategory(query_lower, Head(metrics).key, Head(metrics).value.metrics)
          ELSE <<>>)
         \o SearchMetrics(query_lower, Tail(metrics))

search_metrics_by_synonym(metrics, query) == SearchMetrics(ToLower(query), metrics)

(***************************************************************************)
(* Response texts of the ambiguity prompt, written from decoded values     *)
(***************************************************************************)
\* json.dumps: the text of a decoded value, as the model writes it
RECURSIVE JsonText(_)
RECURSIVE JsonItems(_)
RECURSIVE JsonEntries(_)
JsonItems(items) ==
    IF items = <<>> THEN <<>>
    ELSE JsonText(Head(items)) \o (IF Len(items) > 1 THEN <<",", " ">> ELSE <<>>) \o JsonItems(Tail(items))

JsonEntries(entries) ==
    IF entries = <<>> THEN <<>>
    ELSE <<"\"">> \o Head(entries).key \o <<"\"", ":", " ">> \o JsonText(Head(entries).value)
         \o (IF Len(entries) > 1 THEN <<",", " ">> ELSE <<>>) \o JsonEntries(Tail(entries))

JsonText(x) ==
    IF x.t = "str" THEN <<"\"">> \o x.v \o <<"\"">>
    ELSE IF x.t = "int" THEN <<DIGITS[x.v + 1]>>
    ELSE IF x.t = "list" THEN <<"[">> \o JsonItems(x.v) \o <<"]">>
    ELSE IF x.t = "dict" THEN <<"{">> \o JsonEntries(x.v) \o <<"}">>
    ELSE <<>>

\* one element of the Questions array as the model may write it
QuestionJson(id, text, options) ==
    JDict(<<Entry(K_question_id, JStr(id)), Entry(K_question_text, JStr(text)), Entry(K_options, options)>>)

Strs(texts) == JList([i \in DOMAIN texts |-> JStr(texts[i])])

Q_period == QuestionJson(<<"t","i","m","e","_","p","e","r","i","o","d">>, <<"W","h","i","c","h"," ","p","e","r","i","o","d","?">>, Strs(<<<<"Q","4">>, <<"Q","3">>>>))

\* the element the system instruction itself shows as the format to follow
Q_example == QuestionJson(<<"u","n","i","q","u","e","_","i","d","_","1">>, <<"W","h","i","c","h"," ","t","i","m","e"," ","p","e","r","i","o","d","?">>, Strs(<<<<"L","a","t","e","s","t"," ","q","u","a","r","t","e","r">>, <<"Q","4"," ","2","0","2","4">>>>))

Q_six == QuestionJson(<<"m","e","t","r","i","c","_","t","y","p","e">>, <<"W","h","i","c","h"," ","m","e","t","r","i","c","?">>, Strs(<<<<"a">>, <<"b">>, <<"c">>, <<"d">>, <<"e">>, <<"f">>>>))

Q_no_text == JDict(<<Entry(K_question_id, JStr(<<"t","i","m","e","_","p","e","r","i","o","d">>)), Entry(K_options, Strs(<<<<"Q","4">>, <<"Q","3">>>>))>>)

Q_one_option == QuestionJson(<<"t","i","m","e","_","p","e","r","i","o","d">>, <<"W","h","i","c","h"," ","p","e","r","i","o","d","?">>, Strs(<<<<"Q","4">>>>))

Q_options_text == QuestionJson(<<"t","i","m","e","_","p","e","r","i","o","d">>, <<"W","h","i","c","h"," ","p","e","r","i","o","d","?">>, JStr(<<"Q","4",","," ","Q","3">>))

Q_words == JStr(<<"q","u","e","s","t","i","o","n","_","i","d"," ","q","u","e","s","t","i","o","n","_","t","e","x","t"," ","o","p","t","i","o","n","s">>)

Q_number == JNum(5)

QuestionPool == {Q_period, Q_example, Q_six, Q_no_text, Q_one_option, Q_options_text, Q_words, Q_number}

QuestionLists ==
    {<<>>} \cup {<<a>> : a \in QuestionPool} \cup {<<a, b>> : a \in QuestionPool, b \in QuestionPool}

A_HEAD_YES == <<"A","m","b","i","g","u","o","u","s",":"," ","Y","e","s","\n","\n","R","e","a","s","o","n","s",":","\n","-"," ","n","o"," ","p","e","r","i","o","d","\n","-"," ","\n","\n","S","u","g","g","e","s","t","i","o","n","s",":","\n","-"," ","s","a","y"," ","Q","4","\n","\n">>

\* the verdict line as the model may write it
AmbiguityHeads ==
    {<<"A","m","b","i","g","u","o","u","s",":"," ","Y","e","s","\n">>, <<"A","m","b","i","g","u","o","u","s",":"," ","N","o","\n">>, <<"a","m","b","i","g","u","o","u","s",":"," ","y","e","s","\n">>, <<"A","M","B","I","G","U","O","U","S",":"," ","Y","E","S","\n">>,
     <<"A","m","b","i","g","u","o","u","s",":"," "," ","Y","e","s","\n">>, <<"T","h","e"," ","q","u","e","r","y"," ","i","s"," ","A","m","b","i","g","u","o","u","s",":"," ","Y","e","s",".","\n">>, <<"A","m","b","i","g","u","o","u","s",":"," ","[","Y","e","s","]","\n">>, <<"I"," ","c","a","n","n","o","t"," ","t","e","l","l",".">>, <<>>}

AmbiguitySections ==
    {<<>>, <<"R","e","a","s","o","n","s",":","\n","-"," ","n","o"," ","p","e","r","i","o","d","\n">>, <<"S","u","g","g","e","s","t","i","o","n","s",":","\n","-"," ","s","a","y"," ","Q","4","\n","-"," ","s","a","y"," ","Q","3","\n">>,
     <<"R","e","a","s","o","n","s",":","\n","-"," ","n","o"," ","p","e","r","i","o","d","\n","-"," ","\n","\n","S","u","g","g","e","s","t","i","o","n","s",":","\n","-"," ","s","a","y"," ","Q","4","\n","\n">>,
     <<"R","e","a","s","o","n","s",":"," ","n","o","n","e","\n","Q","u","e","s","t","i","o","n","s",":","\n","[","]">>}

\* the Questions section around the array: plain, inside a code fence, cut
\* short, followed by more text, or without its label
QuestionsSection(kind, listed) ==
    LET array == JsonText(JList(listed))
    IN  CASE kind = "plain" -> LBL_QUESTIONS \o <<"\n">> \o array
          [] kind = "fenced" -> LBL_QUESTIONS \o <<"\n">> \o FENCE \o <<"j","s","o","n","\n">> \o array \o <<"\n">> \o FENCE
          [] kind = "cut" -> LBL_QUESTIONS \o <<"\n">> \o SubSeq(array, 1, Len(array) - 1)
          [] kind = "trailing" -> LBL_QUESTIONS \o <<"\n">> \o array \o <<"\n","S","e","e"," ","n","o","t","e"," ","[","1","]">>
          [] kind = "unlabelled" -> array

\* response texts the model API may give to the ambiguity prompt: the
\* question of the prompt's own example, a list with a six-option question,
\* and a list whose second element has a single option
DetectorResponses ==
    {A_HEAD_YES \o QuestionsSection("plain", <<Q_example>>),
     A_HEAD_YES \o QuestionsSection("fenced", <<Q_period, Q_six>>),
     A_HEAD_YES \o QuestionsSection("plain", <<Q_period, Q_one_option>>)}

\* detect_ambiguity lets a failure of generate propagate; otherwise it returns
\* the parsed result
DetectorOutcomes ==
    {Return(r) : r \in AmbiguityResults}
    \cup {Return(_parse_ambiguity_response(t)) : t \in DetectorResponses}
    \cup {Raise(Exc("LLMError", MSG_RESPONSE \o <<"t","i","m","e","o","u","t">>)),
          Raise(Exc("LLMError", MSG_RESPONSE \o MSG_EMPTY))}

(***************************************************************************)
(* State                                                                   *)
(***************************************************************************)
VARIABLES
    engine,             \* TextToSQLEngine attributes set by __init__
    context_loader,     \* the ContextLoader singleton: its cached document and _loaded flag
    passed_context,     \* the semantic_context argument of each llm_client call of this invocation, in order
    _pg_connection,     \* DatabaseClient._pg_connection: "None", "open" or "closed"
    txn,                \* the cached connection has an open transaction
    last_exec,          \* the latest execute_query call: who made it, its arguments, the branch taken
    pc,                 \* position of the current process_query invocation
    caller,             \* "none", "direct" or "chat"
    request,            \* the ChatRequest being served by the chat endpoint
    args,               \* arguments of the current process_query invocation
    calls,              \* collaborators and stages invoked so far in this invocation, in order
    ambiguity_result,   \* local of process_query
    sql_result,         \* local of process_query
    validation_result,  \* local of process_query
    results,            \* local of process_query
    stage_exc,          \* the exception a stage raised inside the try block
    outcome,            \* what process_query returned or raised
    http,               \* what the chat endpoint answered
    prev,               \* how the invocation before the current one ended: "none", "returned" or "raised"
    fn_call,            \* a function of the program applied on its own: its name and arguments
    fn_ret,             \* what that application returned, once it has
    trace,              \* the calls made so far on one object used on its own, in order
    race                \* callers reaching the lazily created objects for the first time: the objects and each caller's position

vars == <<engine, context_loader, passed_context, _pg_connection, txn, last_exec, pc, caller, request, args, calls,
          ambiguity_result, sql_result, validation_result, results, stage_exc,
          outcome, http, prev, fn_call, fn_ret, trace, race>>

bench == <<fn_call, fn_ret, trace, race>>

pipeline == <<engine, context_loader, passed_context, _pg_connection, txn, last_exec, pc, caller,
              request, args, calls, ambiguity_result, sql_result, validation_result, results,
              stage_exc, outcome, http, prev>>

\* no caller is reaching the lazily created objects
NoRace == [preemptive |-> FALSE, _text_to_sql_engine |-> 0, engines |-> <<>>,
           _database_client |-> 0, clients |-> <<>>, opened |-> 0, thr |-> <<>>]

NoCall == [fn |-> "none"]

NotReturned == [done |-> FALSE]

locals == <<ambiguity_result, sql_result, validation_result, results>>

db == <<_pg_connection, txn, last_exec>>

Unset == [unset |-> TRUE]

NoOutcome == [status |-> "none", exc |-> NoExc, value |-> Unset]

NoExec == [by |-> "none", sql |-> <<>>, params |-> "None", branch |-> "none"]

\* the document in the file when the process starts
StartupFile == [exists |-> TRUE, well_formed |-> TRUE, document |-> DOC_A]

\* TextToSQLEngine.__init__: the context is rendered here, from the loader's
\* document at this moment
InitEngine ==
    [context_loader |-> "context_loader", llm_client |-> "llm_client",
     db_client |-> "db_client",
     semantic_context |-> get_context_for_llm(NewContextLoader, StartupFile).ret.value]

\* the pipeline and its collaborators once the process has started
PipelineInit ==
    /\ engine = InitEngine
    /\ context_loader = get_context_for_llm(NewContextLoader, StartupFile).loader
    /\ passed_context = <<>>
    /\ _pg_connection = "None"
    /\ txn = FALSE
    /\ last_exec = NoExec
    /\ pc = "idle"
    /\ caller = "none"
    /\ request = Unset
    /\ args = Unset
    /\ calls = <<>>
    /\ ambiguity_result = Unset
    /\ sql_result = Unset
    /\ validation_result = Unset
    /\ results = Unset
    /\ stage_exc = NoExc
    /\ outcome = NoOutcome
    /\ http = Unset
    /\ prev = "none"

Init ==
    /\ PipelineInit
    /\ fn_call = NoCall
    /\ fn_ret = NotReturned
    /\ trace = <<>>
    /\ race = NoRace

(***************************************************************************)
(* TextToSQLEngine.process_query                                           *)
(***************************************************************************)
\* no invocation is in progress
Quiescent == pc = "idle"

\* faulty variant: the ambiguity check is made whatever check_ambiguity says
Enter_AlwaysChecks(query, history, check_ambiguity, who) ==
    /\ args' = [natural_language_query |-> query, conversation_history |-> history,
                check_ambiguity |-> check_ambiguity]
    /\ caller' = who
    /\ pc' = "ambiguity"
    /\ calls' = <<>>
    /\ ambiguity_result' = Unset
    /\ sql_result' = Unset
    /\ validation_result' = Unset
    /\ results' = Unset
    /\ stage_exc' = NoExc
    /\ outcome' = NoOutcome
    /\ http' = Unset
    /\ last_exec' = NoExec
    /\ passed_context' = <<>>
    /\ UNCHANGED <<bench, engine, context_loader, _pg_connection, txn, prev>>

\* entering process_query: fresh locals, first stage chosen by check_ambiguity
Enter(query, history, check_ambiguity, who) ==
    /\ args' = [natural_language_query |-> query, conversation_history |-> history,
                check_ambiguity |-> check_ambiguity]
    /\ caller' = who
    /\ pc' = IF check_ambiguity THEN "ambiguity" ELSE "synthesize"
    /\ calls' = <<>>
    /\ ambiguity_result' = Unset
    /\ sql_result' = Unset
    /\ validation_result' = Unset
    /\ results' = Unset
    /\ stage_exc' = NoExc
    /\ outcome' = NoOutcome
    /\ http' = Unset
    /\ last_exec' = NoExec
    /\ passed_context' = <<>>
    /\ UNCHANGED <<bench, engine, context_loader, _pg_connection, txn, prev>>

\* a caller other than the chat endpoint invokes process_query
process_query_call ==
    /\ Quiescent
    /\ \E q \in Queries, h \in Histories, c \in BOOLEAN : Enter(q, h, c, "direct")
    /\ request' = Unset

\* the except clauses that close process_query
ExpectedErrors == {"AmbiguousQueryError", "SQLGenerationError", "SQLValidationError", "SQLExecutionError"}

\* faulty variant: every exception is re-raised as it is
HandleException_Reraise(e) == e

HandleException(e) ==
    IF \E k \in ExpectedErrors : IsInstance(e.kind, k)
    THEN e
    ELSE Exc("SQLGenerationError", MSG_PROCESS \o e.msg)

\* an exception raised inside the try block ends the invocation
Fail(e) ==
    /\ stage_exc' = e
    /\ outcome' = [status |-> "raised", exc |-> HandleException(e), value |-> Unset]
    /\ pc' = "error"

\* faulty variant: the context is rendered again from the loader for each call
SemanticContextArg_Rerendered(eng, loader) == yaml_dump(loader.context)

\* the semantic_context argument of detect_ambiguity and generate_sql
SemanticContextArg(eng, loader) == eng.semantic_context

\* faulty variant: the structured questions are dropped
GetQuestions_Dropped(r) == <<>>

\* ambiguity_result.get('questions', [])
GetQuestions(r) == IF "questions" \in DOMAIN r THEN r.questions ELSE <<>>

AmbiguityCheck ==
    /\ pc = "ambiguity"
    /\ \E out \in DetectorOutcomes :
        /\ calls' = Append(calls, "detect_ambiguity")
        /\ passed_context' = Append(passed_context, SemanticContextArg(engine, context_loader))
        /\ IF ~out.ok
           THEN /\ Fail(out.exc)
                /\ UNCHANGED ambiguity_result
           ELSE /\ ambiguity_result' = out.value
                /\ IF out.value.is_ambiguous
                   THEN Fail(AmbiguousQueryError(MSG_AMBIGUOUS, out.value.suggestions,
                                                 GetQuestions(out.value)))
                   ELSE /\ pc' = "synthesize"
                        /\ UNCHANGED <<stage_exc, outcome>>
    /\ UNCHANGED <<bench, engine, context_loader, db, caller, request, args, sql_result, validation_result, results, http, prev>>

\* faulty variant: a failed generation is tried again
Synthesize_Retries ==
    /\ pc = "synthesize"
    /\ \E m \in ModelOutcomes :
        LET r == generate_sql(m)
        IN  /\ calls' = Append(calls, "generate_sql")
            /\ passed_context' = Append(passed_context, SemanticContextArg(engine, context_loader))
            /\ Len(calls) < 4
            /\ IF r.ok
               THEN /\ sql_result' = r.value
                    /\ pc' = "validate"
               ELSE /\ pc' = "synthesize"
                    /\ UNCHANGED sql_result
    /\ UNCHANGED <<bench, engine, context_loader, db, caller, request, args, ambiguity_result, validation_result,
                   results, http, prev, stage_exc, outcome>>

Synthesize ==
    /\ pc = "synthesize"
    /\ \E m \in ModelOutcomes :
        LET r == generate_sql(m)
        IN  /\ calls' = Append(calls, "generate_sql")
            /\ passed_context' = Append(passed_context, SemanticContextArg(engine, context_loader))
            /\ IF r.ok
               THEN /\ sql_result' = r.value
                    /\ pc' = "validate"
                    /\ UNCHANGED <<stage_exc, outcome>>
               ELSE /\ Fail(r.exc)
                    /\ UNCHANGED sql_result
    /\ UNCHANGED <<bench, engine, context_loader, db, caller, request, args, ambiguity_result, validation_result, results, http, prev>>

\* faulty variant: the validation failure is raised as a generation failure
SQLValidationError_AsGeneration(errors) ==
    Exc("SQLGenerationError", MSG_INVALID \o Join(errors, MSG_SEP))

SQLValidationError(errors) == Exc("SQLValidationError", MSG_INVALID \o Join(errors, MSG_SEP))

\* faulty variant: the verdict is computed but not acted on
Validate_IgnoresVerdict ==
    /\ pc = "validate"
    /\ \E build \in SqlparseBuilds : validation_result' = _validate_sql(sql_result.sql, build)
    /\ calls' = Append(calls, "_validate_sql")
    /\ pc' = "execute"
    /\ UNCHANGED <<bench, engine, context_loader, passed_context, db, caller, request, args, ambiguity_result, sql_result, results,
                   http, prev, stage_exc, outcome>>

Validate ==
    /\ pc = "validate"
    /\ \E build \in SqlparseBuilds :
        LET v == _validate_sql(sql_result.sql, build)
        IN  /\ validation_result' = v
            /\ calls' = Append(calls, "_validate_sql")
            /\ IF ~v.is_valid
               THEN Fail(SQLValidationError(v.errors))
               ELSE /\ pc' = "execute"
                    /\ UNCHANGED <<stage_exc, outcome>>
    /\ UNCHANGED <<bench, engine, context_loader, passed_context, db, caller, request, args, ambiguity_result, sql_result, results, http, prev>>

\* _execute_sql: db_client.execute_query(sql), params left at its default None
Execute ==
    /\ pc = "execute"
    /\ \E d \in DriverOutcomes :
        LET x == execute_query(sql_result.sql, "None", _pg_connection, txn, d)
        IN  /\ calls' = Append(calls, "execute_query")
            /\ _pg_connection' = x.conn
            /\ txn' = x.txn
            /\ last_exec' = [by |-> "pipeline", sql |-> sql_result.sql, params |-> "None",
                             branch |-> x.branch]
            /\ IF x.ret.ok
               THEN /\ results' = x.ret.value
                    /\ pc' = "summarize"
                    /\ UNCHANGED <<stage_exc, outcome>>
               ELSE /\ Fail(x.ret.exc)
                    /\ UNCHANGED results
    /\ UNCHANGED <<bench, engine, context_loader, passed_context, caller, request, args, ambiguity_result, sql_result, validation_result, http, prev>>

\* faulty variant: the generated SQL is appended to the engine's semantic context
Summarize_StoresInEngine ==
    /\ pc = "summarize"
    /\ calls' = Append(calls, "_suggest_visualization")
    /\ outcome' = [status |-> "returned", exc |-> NoExc,
                   value |-> [sql |-> sql_result.sql,
                              explanation |-> sql_result.explanation,
                              results |-> results,
                              metrics_used |-> sql_result.metrics_used,
                              visualization_hint |-> _suggest_visualization(sql_result.sql, results)]]
    /\ engine' = [engine EXCEPT !.semantic_context = engine.semantic_context \o sql_result.sql]
    /\ pc' = "done"
    /\ UNCHANGED <<bench, context_loader, passed_context, db, caller, request, args, locals, stage_exc, http, prev>>

Summarize ==
    /\ pc = "summarize"
    /\ calls' = Append(calls, "_suggest_visualization")
    /\ outcome' = [status |-> "returned", exc |-> NoExc,
                   value |-> [sql |-> sql_result.sql,
                              explanation |-> sql_result.explanation,
                              results |-> results,
                              metrics_used |-> sql_result.metrics_used,
                              visualization_hint |-> _suggest_visualization(sql_result.sql, results)]]
    /\ pc' = "done"
    /\ UNCHANGED <<bench, engine, context_loader, passed_context, db, caller, request, args, locals, stage_exc, http, prev>>

(***************************************************************************)
(* The end of an invocation, and the other users of the DatabaseClient     *)
(* and of the driver's connection, which run between invocations           *)
(***************************************************************************)
\* the caller has the outcome (the chat endpoint has answered): the
\* invocation's frame, with its locals, is gone
process_query_exit ==
    /\ \/ pc \in {"done", "error"} /\ caller = "direct"
       \/ pc = "responded"
    /\ pc' = "idle"
    /\ caller' = "none"
    /\ request' = Unset
    /\ args' = Unset
    /\ calls' = <<>>
    /\ ambiguity_result' = Unset
    /\ sql_result' = Unset
    /\ validation_result' = Unset
    /\ results' = Unset
    /\ stage_exc' = NoExc
    /\ outcome' = NoOutcome
    /\ http' = Unset
    /\ prev' = outcome.status
    /\ passed_context' = <<>>
    /\ UNCHANGED <<bench, engine, context_loader, db>>

\* execute_query called from outside the pipeline
db_execute_query ==
    /\ Quiescent
    /\ \E sql \in DirectSQL, params \in {"None", "tuple"}, d \in DriverOutcomes :
        LET x == execute_query(sql, params, _pg_connection, txn, d)
        IN  /\ _pg_connection' = x.conn
            /\ txn' = x.txn
            /\ last_exec' = [by |-> "direct", sql |-> sql, params |-> params, branch |-> x.branch]
    /\ UNCHANGED <<bench, engine, context_loader, passed_context, pc, caller, request, args, calls, locals, stage_exc, outcome, http, prev>>

\* ContextLoader.reload, called between invocations while the file may have
\* been replaced, emptied of its metrics, corrupted or removed
context_reload ==
    /\ Quiescent
    /\ \E file \in ContextFiles : context_loader' = reload(context_loader, file).loader
    /\ UNCHANGED <<bench, engine, passed_context, db, pc, caller, request, args, calls, locals, stage_exc,
                   outcome, http, prev>>

\* DatabaseClient.close
close ==
    /\ Quiescent
    /\ _pg_connection = "open"
    /\ _pg_connection' = "closed"
    /\ txn' = FALSE
    /\ UNCHANGED <<bench, engine, context_loader, passed_context, last_exec, pc, caller, request, args, calls, locals, stage_exc,
                   outcome, http, prev>>

\* the server or the network drops the cached connection
connection_lost ==
    /\ Quiescent
    /\ _pg_connection = "open"
    /\ _pg_connection' = "closed"
    /\ txn' = FALSE
    /\ UNCHANGED <<bench, engine, context_loader, passed_context, last_exec, pc, caller, request, args, calls, locals, stage_exc,
                   outcome, http, prev>>

(***************************************************************************)
(* GeminiClient.augment_query_with_clarifications                          *)
(***************************************************************************)
AUG_OPEN == <<"\n","\n","[","C","l","a","r","i","f","i","c","a","t","i","o","n","s"," ","p","r","o","v","i","d","e","d"," ","b","y"," ","u","s","e","r",":","\n">>

AUG_FOR == <<"-"," ","F","o","r"," ","'">>

AUG_SEL == <<"'",":"," ","U","s","e","r"," ","s","e","l","e","c","t","e","d"," ","'">>

AUG_QUOTE == <<"'">>

AUG_CLOSE == <<"\n","]">>

\* faulty variant: the line names the question and leaves the selection out
ClarificationLine_IdOnly(c) == AUG_FOR \o c.question_id \o AUG_QUOTE

ClarificationLine(c) == AUG_FOR \o c.question_id \o AUG_SEL \o c.selected_option \o AUG_QUOTE

augment_query_with_clarifications(original_query, clarifications) ==
    IF clarifications = <<>> THEN original_query
    ELSE LET clarification_text ==
                 Join([i \in 1..Len(clarifications) |-> ClarificationLine(clarifications[i])],
                      <<"\n">>)
         IN  original_query \o AUG_OPEN \o clarification_text \o AUG_CLOSE

(***************************************************************************)
(* app/api/routes/chat.py: the chat endpoint                               *)
(***************************************************************************)
CL_period == [question_id |-> <<"t","i","m","e","_","p","e","r","i","o","d">>, selected_option |-> <<"Q","4">>]

CL_metric == [question_id |-> <<"m","e","t","r","i","c","_","t","y","p","e">>, selected_option |-> <<"n","e","t">>]

MessageLists ==
    {<<>>, <<[role |-> "user", content |-> <<"q","1">>], [role |-> "assistant", content |-> <<"a","1">>]>>}

ChatRequests ==
    [query : Queries,
     conversation_history : MessageLists,
     check_ambiguity : BOOLEAN,
     clarifications : {<<>>, <<CL_period>>, <<CL_metric, CL_period>>}]

\* the list comprehension that turns Message objects into history turns
ConvertHistory(messages) ==
    [i \in 1..Len(messages) |->
        [user |-> IF messages[i].role = "user" THEN messages[i].content ELSE <<>>,
         assistant |-> IF messages[i].role = "assistant" THEN messages[i].content ELSE <<>>]]

\* faulty variant: the requested check_ambiguity is kept when clarifications are given
chat_request_KeepsCheck ==
    /\ Quiescent
    /\ \E req \in ChatRequests :
        LET clarified == req.clarifications # <<>>
            query_to_process ==
                IF clarified
                THEN augment_query_with_clarifications(req.query, req.clarifications)
                ELSE req.query
            should_check_ambiguity == req.check_ambiguity
        IN  /\ request' = req
            /\ Enter(query_to_process, ConvertHistory(req.conversation_history),
                     should_check_ambiguity, "chat")

\* chat up to its await on engine.process_query
chat_request ==
    /\ Quiescent
    /\ \E req \in ChatRequests :
        LET clarified == req.clarifications # <<>>
            query_to_process ==
                IF clarified
                THEN augment_query_with_clarifications(req.query, req.clarifications)
                ELSE req.query
            should_check_ambiguity == IF clarified THEN FALSE ELSE req.check_ambiguity
        IN  /\ request' = req
            /\ Enter(query_to_process, ConvertHistory(req.conversation_history),
                     should_check_ambiguity, "chat")

\* pydantic validation of one element of AmbiguityResponse.questions
ClarificationQuestionValid(q) ==
    /\ Len(q.question_id) >= 1
    /\ \A i \in 1..Len(q.question_id) :
          q.question_id[i] = "_" \/ \E j \in 1..26 : LOWER[j] = q.question_id[i]
    /\ Len(q.question_text) >= 5 /\ Len(q.question_text) <= 200
    /\ Len(q.options) >= 2 /\ Len(q.options) <= 5

ERR_EXECUTE == <<"F","a","i","l","e","d"," ","t","o"," ","e","x","e","c","u","t","e"," ","q","u","e","r","y","."," ","P","l","e","a","s","e"," ","t","r","y"," ","r","e","p","h","r","a","s","i","n","g"," ","y","o","u","r"," ","q","u","e","s","t","i","o","n",".">>

\* faulty variant: row_count counts the columns of the first row
SuccessResponse_CountsColumns(req, result) ==
    [status |-> 200,
     body |-> [success |-> TRUE, query |-> req.query,
               result |-> [sql |-> result.sql,
                           explanation |-> result.explanation,
                           results |-> result.results,
                           metrics_used |-> result.metrics_used,
                           visualization_hint |-> result.visualization_hint,
                           row_count |-> IF result.results = <<>> THEN 0
                                         ELSE Cardinality(DOMAIN result.results[1])]]]

\* the ChatResponse built from a returned result
SuccessResponse(req, result) ==
    [status |-> 200,
     body |-> [success |-> TRUE, query |-> req.query,
               result |-> [sql |-> result.sql,
                           explanation |-> result.explanation,
                           results |-> result.results,
                           metrics_used |-> result.metrics_used,
                           visualization_hint |-> result.visualization_hint,
                           row_count |-> Len(result.results)]]]

\* the except clauses of chat
ErrorResponse(req, e) ==
    IF IsInstance(e.kind, "AmbiguousQueryError")
    THEN IF \A i \in 1..Len(e.questions) : ClarificationQuestionValid(e.questions[i])
         THEN [status |-> 400,
               body |-> [success |-> FALSE, query |-> req.query, is_ambiguous |-> TRUE,
                         reasons |-> <<e.msg>>, suggestions |-> e.options,
                         questions |-> e.questions]]
         ELSE \* AmbiguityResponse(...) raises inside the except block
              [status |-> 500, body |-> [unhandled |-> "ValidationError"]]
    ELSE IF IsInstance(e.kind, "SQLGenerationError") \/ IsInstance(e.kind, "SQLValidationError")
    THEN [status |-> 500, body |-> [success |-> FALSE, error |-> e.msg, error_type |-> e.kind]]
    ELSE IF IsInstance(e.kind, "SQLExecutionError")
    THEN [status |-> 500,
          body |-> [success |-> FALSE, error |-> ERR_EXECUTE, error_type |-> "SQLExecutionError",
                    details |-> e.msg]]
    ELSE [status |-> 500,
          body |-> [success |-> FALSE, error_type |-> "InternalError", details |-> e.msg]]

\* chat after process_query returned or raised
chat_response ==
    /\ pc \in {"done", "error"}
    /\ caller = "chat"
    /\ http' = IF outcome.status = "returned"
               THEN SuccessResponse(request, outcome.value)
               ELSE ErrorResponse(request, outcome.exc)
    /\ pc' = "responded"
    /\ UNCHANGED <<bench, engine, context_loader, passed_context, db, caller, request, args, calls, locals, stage_exc, outcome, prev>>

(***************************************************************************)
(* Specification                                                           *)
(***************************************************************************)
Next ==
    \/ process_query_call
    \/ chat_request
    \/ AmbiguityCheck
    \/ Synthesize
    \/ Validate
    \/ Execute
    \/ Summarize
    \/ chat_response
    \/ process_query_exit
    \/ db_execute_query
    \/ close
    \/ connection_lost
    \/ context_reload

Spec == Init /\ [][Next]_vars

(***************************************************************************)
(* The functions of the program applied on their own: an application is    *)
(* chosen with its arguments, then the function returns.                   *)
(***************************************************************************)
\* SQL texts handed to _validate_sql: what may stand before, at and after a
\* word of the text
V_Prefixes == {<<>>, <<" ">>, <<"S","E","L","E","C","T"," ">>, <<"s","e","l","e","c","t"," ","a",","," ">>, <<"\n"," ","S","e","L","e","C","t"," ">>}

V_Words ==
    {dangerous_keywords[i] : i \in DOMAIN dangerous_keywords}
    \cup {ToLower(dangerous_keywords[i]) : i \in DOMAIN dangerous_keywords}
    \cup {<<>>, <<"x">>, <<"u","p","d","a","t","e","d","_","a","t">>, <<"C","r","e","a","t","e","d","_","B","y">>, <<"d","r","o","p"," ","d","e","l","e","t","e">>}

V_Suffixes == {<<>>, <<" ","F","R","O","M"," ","t">>, <<" ","(","(","(","1",")",")",")">>,
               <<" ","(","(","(","(","1",")",")",")",")">>, <<" "," ">>}

ValidatorTexts == {p \o w \o x : p \in V_Prefixes, w \in V_Words, x \in V_Suffixes}

ValidatorCalls ==
    {[fn |-> "_validate_sql", sql |-> t, build |-> b] : t \in ValidatorTexts, b \in SqlparseBuilds}

\* SQL texts and result sets handed to _suggest_visualization
VizTexts ==
    {<<"S","E","L","E","C","T"," ","x">> \o t \o d \o a :
        t \in {<<>>, <<","," ","d","a","t","e">>, <<","," ","O","r","d","e","r","_","M","o","n","t","h">>, <<","," ","Y","E","A","R","(","d",")">>},
        d \in {<<>>, <<","," ","r","e","g","i","o","n">>, <<","," ","P","r","o","d","u","c","t">>},
        a \in {<<>>, <<","," ","S","U","M","(","b",")">>, <<","," ","c","o","u","n","t","(","*",")">>}}

\* n rows of c columns whose values depend on v
ValueRows(n, c, v) == [i \in 1..n |-> [k \in 1..c |-> v * i + k]]

VizResults == {ValueRows(n, c, v) : n \in {0, 1, 2, 10, 11, 50, 51}, c \in {1, 5, 6}, v \in {0, 1}}

VizCalls == {[fn |-> "_suggest_visualization", sql |-> t, results |-> r] : t \in VizTexts, r \in VizResults}

\* calls of _parse_ambiguity_response; listed is the array the response was written with
AmbiguityParseCalls ==
    {[fn |-> "_parse_ambiguity_response", response |-> h \o s, listed |-> <<>>, kind |-> "none"] :
        h \in AmbiguityHeads, s \in AmbiguitySections}
    \cup {[fn |-> "_parse_ambiguity_response", response |-> A_HEAD_YES \o QuestionsSection(k, l),
           listed |-> l, kind |-> k] :
            k \in {"plain", "fenced", "cut", "trailing", "unlabelled"}, l \in QuestionLists}

\* the parts a synthesis response is written from.  A fence part records
\* whether a fence was opened and closed and the text written after the
\* opening fence; an explanation part the text written after its label; a
\* metrics part the names it lists.
SqlFenceParts ==
    {[text |-> <<>>, opened |-> FALSE, closed |-> FALSE, content |-> <<>>],
     [text |-> FENCE_SQL \o <<"\n","S","E","L","E","C","T"," ","1","\n">> \o FENCE \o <<"\n">>, opened |-> TRUE, closed |-> TRUE, content |-> <<"\n","S","E","L","E","C","T"," ","1","\n">>],
     [text |-> FENCE \o <<"\n","S","E","L","E","C","T"," ","1","\n">> \o FENCE \o <<"\n">>, opened |-> TRUE, closed |-> TRUE, content |-> <<"\n","S","E","L","E","C","T"," ","1","\n">>],
     [text |-> FENCE_SQL \o FENCE \o <<"\n">>, opened |-> TRUE, closed |-> TRUE, content |-> <<>>],
     [text |-> FENCE_SQL \o <<"\n","S","E","L","E","C","T"," ","1","\n">>, opened |-> TRUE, closed |-> FALSE, content |-> <<"\n","S","E","L","E","C","T"," ","1","\n">>],
     [text |-> FENCE_SQL \o <<"\n","S","E","L","E","C","T"," ","1">>, opened |-> TRUE, closed |-> FALSE, content |-> <<"\n","S","E","L","E","C","T"," ","1">>]}

SqlExplanationParts ==
    {[text |-> <<>>, labelled |-> FALSE, body |-> <<>>],
     [text |-> LBL_EXPLANATION \o <<" ","c","o","u","n","t","s"," ","l","o","a","n","s","\n","\n">>, labelled |-> TRUE, body |-> <<" ","c","o","u","n","t","s"," ","l","o","a","n","s","\n","\n">>],
     [text |-> LBL_EXPLANATION \o <<"\n">>, labelled |-> TRUE, body |-> <<"\n">>]}

SqlMetricsParts ==
    {[text |-> <<>>, listed |-> <<>>],
     [text |-> LBL_METRICS \o <<" ","n","p","l",","," ","d","p","d"," ",",","e","c","l">>, listed |-> <<<<"n","p","l">>, <<"d","p","d">>, <<"e","c","l">>>>],
     [text |-> LBL_METRICS \o <<"\n","-"," ","n","p","l","\n","*"," ","d","p","d","\n">>, listed |-> <<<<"n","p","l">>, <<"d","p","d">>>>],
     [text |-> LBL_METRICS \o <<" ">>, listed |-> <<>>]}

SqlPreambles == {<<>>, <<"H","e","r","e"," ","i","s"," ","t","h","e"," ","q","u","e","r","y",".","\n">>}

\* calls of _parse_sql_response; after is the text from the opening fence's
\* end to the end of the response
SqlResponseCalls ==
    {[fn |-> "_parse_sql_response", response |-> p \o f.text \o e.text \o m.text,
      fence |-> f, after |-> f.content \o e.text \o m.text,
      explanation |-> e.body, listed |-> m.listed] :
        p \in SqlPreambles, f \in SqlFenceParts, e \in SqlExplanationParts, m \in SqlMetricsParts}

\* one fenced block as the model writes it, with or without the sql tag
BlockText(b) ==
    (IF b.tagged THEN FENCE_SQL ELSE FENCE) \o <<"\n">> \o b.content \o <<"\n">> \o FENCE

RECURSIVE BlocksText(_, _)
BlocksText(blocks, between) ==
    IF blocks = <<>> THEN <<>>
    ELSE IF Len(blocks) = 1 THEN BlockText(blocks[1])
    ELSE BlockText(blocks[1]) \o between \o BlocksText(Tail(blocks), between)

\* the statement written in the i-th block
BlockContent(i) == <<"S","E","L","E","C","T"," ">> \o <<DIGITS[i + 1]>> \o <<" ","F","R","O","M"," ","t">>

MaxBlocks == 3

\* two to MaxBlocks closed blocks, the i-th holding the i-th statement, tagged in every way
BlockLists ==
    UNION {{[i \in 1..n |-> [tagged |-> tags[i], content |-> BlockContent(i)]] :
                tags \in [1..n -> BOOLEAN]} : n \in 2..MaxBlocks}

\* calls of _parse_sql_response on responses with several fenced blocks
MultiBlockCalls ==
    {[fn |-> "_parse_sql_response",
      response |-> BlocksText(bl, between) \o tail,
      blocks |-> bl] :
        bl \in BlockLists,
        between \in {<<"\n">>, <<"\n","\n","S","o","m","e"," ","t","e","x","t","\n","\n">>},
        tail \in {<<>>, <<"\n","\n","E","x","p","l","a","n","a","t","i","o","n",":"," ","T","e","s","t","\n","\n","M","e","t","r","i","c","s"," ","u","s","e","d",":"," ","m","e","t","r","i","c","1">>}}

\* clarifications as chat hands them to augment_query_with_clarifications
ClarificationPool ==
    {CL_period, CL_metric,
     [question_id |-> <<"b","a","l","a","n","c","e","_","t","y","p","e">>, selected_option |-> <<"Q","4"," ","[","2","0","2","4","]">>]}

MaxClarifications == 3

ClarificationLists ==
    UNION {[1..n -> ClarificationPool] : n \in 0..MaxClarifications}

AugmentCalls ==
    {[fn |-> "augment_query_with_clarifications", original_query |-> q, clarifications |-> cs] :
        q \in {<<"q","1">>, <<"W","h","a","t"," ","i","s"," ","t","h","e"," ","c","h","a","r","g","e","-","o","f","f"," ","r","a","t","e","?">>, <<"r","a","t","e"," ","[","n","e","t","]">>},
        cs \in ClarificationLists}

\* the i-th turn of a conversation, whole or with the user's part only
HistoryTurn(i, whole) ==
    IF whole THEN [user |-> <<"u", DIGITS[i + 1]>>, assistant |-> <<"a", DIGITS[i + 1]>>]
    ELSE [user |-> <<"u", DIGITS[i + 1]>>]

MaxTurns == 5

PromptHistories ==
    UNION {{[i \in 1..n |-> HistoryTurn(i, whole[i])] : whole \in [1..n -> BOOLEAN]} : n \in 0..MaxTurns}

PromptCalls ==
    {[fn |-> "generate_sql", natural_language_query |-> q, conversation_history |-> h] :
        q \in {<<"q","1">>, <<"t","o","t","a","l"," ","e","x","p","o","s","u","r","e">>}, h \in PromptHistories}

\* the cached connection and its transaction as a call may find them
ConnectionStates ==
    {[conn |-> "None", txn |-> FALSE], [conn |-> "closed", txn |-> FALSE],
     [conn |-> "open", txn |-> FALSE], [conn |-> "open", txn |-> TRUE]}

ExecuteCalls ==
    {[fn |-> "execute_query", sql |-> sql, params |-> p, before |-> c, driver |-> d] :
        sql \in DirectSQL, p \in {"None", "tuple"}, c \in ConnectionStates, d \in DriverOutcomes}

M_total == Entry(<<"t","o","t","a","l","_","e","x","p","o","s","u","r","e">>, MetricDef(<<<<"b","a","l","a","n","c","e">>, <<"T","o","t","a","l"," ","P","r","i","n","c","i","p","a","l">>>>, <<"T","o","t","a","l"," ","o","u","t","s","t","a","n","d","i","n","g"," ","b","a","l","a","n","c","e">>))

M_past_due == Entry(<<"p","a","s","t","_","d","u","e","_","e","x","p","o","s","u","r","e">>, MetricDef(<<<<"d","e","l","i","n","q","u","e","n","t">>, <<"o","v","e","r","d","u","e">>>>, <<"P","a","s","t"," ","d","u","e"," ","a","m","o","u","n","t">>))

M_npl == Entry(<<"n","p","l","_","r","a","t","i","o">>, MetricDef(<<>>, <<>>))

\* the metrics section of the documents searched
SearchedMetrics ==
    {<<>>,
     <<Entry(<<"e","x","p","o","s","u","r","e">>, Category(<<M_total, M_past_due>>))>>,
     <<Entry(<<"v","e","r","s","i","o","n">>, NotAMapping), Entry(<<"e","x","p","o","s","u","r","e">>, Category(<<M_past_due, M_total>>)),
       Entry(<<"q","u","a","l","i","t","y">>, Category(<<M_npl>>))>>}

SearchTerms ==
    {<<"e","x","p","o","s","u","r","e">>, <<"E","X","P","O","S","U","R","E">>, <<"b","a","l","a","n","c","e">>, <<"o","u","t","s","t","a","n","d","i","n","g">>, <<"t","o","t","a","l">>, <<"d","u","e">>,
     <<"r","a","t","i","o">>, <<"x","y","z","_","n","o","n","e","x","i","s","t","e","n","t">>, <<>>}

SearchCalls ==
    {[fn |-> "search_metrics_by_synonym", metrics |-> m, query |-> q] :
        m \in SearchedMetrics, q \in SearchTerms}

FnCalls == ValidatorCalls \cup VizCalls \cup AmbiguityParseCalls \cup SqlResponseCalls
           \cup MultiBlockCalls \cup AugmentCalls \cup PromptCalls
           \cup ExecuteCalls \cup SearchCalls

InitFn ==
    /\ PipelineInit
    /\ fn_call \in FnCalls
    /\ fn_ret = NotReturned
    /\ trace = <<>>
    /\ race = NoRace

validate_call ==
    /\ fn_call.fn = "_validate_sql"
    /\ ~fn_ret.done
    /\ fn_ret' = [done |-> TRUE, value |-> _validate_sql(fn_call.sql, fn_call.build)]
    /\ UNCHANGED <<fn_call, trace, race, pipeline>>

visualization_call ==
    /\ fn_call.fn = "_suggest_visualization"
    /\ ~fn_ret.done
    /\ fn_ret' = [done |-> TRUE, value |-> _suggest_visualization(fn_call.sql, fn_call.results)]
    /\ UNCHANGED <<fn_call, trace, race, pipeline>>

parse_ambiguity_call ==
    /\ fn_call.fn = "_parse_ambiguity_response"
    /\ ~fn_ret.done
    /\ fn_ret' = [done |-> TRUE, value |-> _parse_ambiguity_response(fn_call.response)]
    /\ UNCHANGED <<fn_call, trace, race, pipeline>>

parse_sql_call ==
    /\ fn_call.fn = "_parse_sql_response"
    /\ ~fn_ret.done
    /\ fn_ret' = [done |-> TRUE, value |-> _parse_sql_response(fn_call.response)]
    /\ UNCHANGED <<fn_call, trace, race, pipeline>>

augment_call ==
    /\ fn_call.fn = "augment_query_with_clarifications"
    /\ ~fn_ret.done
    /\ fn_ret' = [done |-> TRUE,
                  value |-> augment_query_with_clarifications(fn_call.original_query,
                                                              fn_call.clarifications)]
    /\ UNCHANGED <<fn_call, trace, race, pipeline>>

prompt_call ==
    /\ fn_call.fn = "generate_sql"
    /\ ~fn_ret.done
    /\ fn_ret' = [done |-> TRUE,
                  value |-> generate_sql_prompt(fn_call.natural_language_query,
                                                fn_call.conversation_history)]
    /\ UNCHANGED <<fn_call, trace, race, pipeline>>

execute_call ==
    /\ fn_call.fn = "execute_query"
    /\ ~fn_ret.done
    /\ fn_ret' = [done |-> TRUE,
                  value |-> execute_query(fn_call.sql, fn_call.params, fn_call.before.conn,
                                          fn_call.before.txn, fn_call.driver)]
    /\ UNCHANGED <<fn_call, trace, race, pipeline>>

search_call ==
    /\ fn_call.fn = "search_metrics_by_synonym"
    /\ ~fn_ret.done
    /\ fn_ret' = [done |-> TRUE, value |-> search_metrics_by_synonym(fn_call.metrics, fn_call.query)]
    /\ UNCHANGED <<fn_call, trace, race, pipeline>>

NextFn ==
    \/ validate_call
    \/ visualization_call
    \/ parse_ambiguity_call
    \/ parse_sql_call
    \/ augment_call
    \/ prompt_call
    \/ execute_call
    \/ search_call

SpecFn == InitFn /\ [][NextFn]_vars

(***************************************************************************)
(* One DatabaseClient used on its own: execute_query and close calls in    *)
(* any order, while the server may drop the connection between them.  The  *)
(* trace records, for each call, the cached connection it found, whether   *)
(* it made a connection, and the cached connection it left.                *)
(***************************************************************************)
MaxDalCalls == 4

dal_execute_query ==
    /\ Len(trace) < MaxDalCalls
    /\ \E sql \in DirectSQL, d \in DriverOutcomes :
        LET x == execute_query(sql, "None", _pg_connection, txn, d)
        IN  /\ _pg_connection' = x.conn
            /\ txn' = x.txn
            /\ last_exec' = [by |-> "direct", sql |-> sql, params |-> "None", branch |-> x.branch]
            /\ trace' = Append(trace, [op |-> "execute_query", found |-> _pg_connection,
                                        connected |-> x.opened,
                                        refused |-> NeedsConnection(_pg_connection) /\ ~d.connect_ok,
                                        ok |-> x.ret.ok, left |-> x.conn])
    /\ UNCHANGED <<fn_call, fn_ret, race, engine, context_loader, passed_context, pc, caller, request, args,
                   calls, locals, stage_exc, outcome, http, prev>>

\* DatabaseClient.close: closes the cached connection if there is an open one
dal_close ==
    /\ Len(trace) < MaxDalCalls
    /\ _pg_connection' = IF _pg_connection = "open" THEN "closed" ELSE _pg_connection
    /\ txn' = FALSE
    /\ trace' = Append(trace, [op |-> "close", found |-> _pg_connection, connected |-> FALSE,
                                refused |-> FALSE, ok |-> TRUE, left |-> _pg_connection'])
    /\ UNCHANGED <<fn_call, fn_ret, race, engine, context_loader, passed_context, last_exec, pc, caller,
                   request, args, calls, locals, stage_exc, outcome, http, prev>>

\* the server or the network drops the cached connection between two calls
dal_connection_lost ==
    /\ Len(trace) < MaxDalCalls
    /\ _pg_connection = "open"
    /\ _pg_connection' = "closed"
    /\ txn' = FALSE
    /\ trace' = Append(trace, [op |-> "lost", found |-> "open", connected |-> FALSE,
                                refused |-> FALSE, ok |-> TRUE, left |-> "closed"])
    /\ UNCHANGED <<fn_call, fn_ret, race, engine, context_loader, passed_context, last_exec, pc, caller,
                   request, args, calls, locals, stage_exc, outcome, http, prev>>

NextDal ==
    \/ dal_execute_query
    \/ dal_close
    \/ dal_connection_lost

SpecDal == Init /\ [][NextDal]_vars

(***************************************************************************)
(* First access to the lazily created objects: the engine singleton        *)
(* (get_text_to_sql_engine), the database client singleton                 *)
(* (get_database_client) and a client's connection (get_pg_connection).    *)
(* Each of them tests a reference and, when it is None, builds the object  *)
(* and assigns the reference; none of them takes a lock.  Objects are      *)
(* numbered in the order they are built, 0 standing for None.  A caller    *)
(* is either a coroutine of the one event loop, which is only suspended at *)
(* an await and so runs each of these plain functions without              *)
(* interruption, or a thread, which can be preempted between the test and  *)
(* the assignment.                                                         *)
(***************************************************************************)
MaxRacers == 3

\* a caller that has not yet asked for the engine
NewCaller == [pc |-> "start", engine |-> 0, client |-> 0, conn |-> 0]

RaceStart(n, preemptive) ==
    [NoRace EXCEPT !.preemptive = preemptive, !.thr = [r \in 1..n |-> NewCaller]]

\* positions between the test of a reference and its assignment
InsideInitialiser == {"init_engine", "make_client", "assign_engine", "connect"}

\* the caller r can take its next step: always when callers are threads; on
\* the event loop only while no other caller is inside a plain function
Runnable(r) ==
    \/ race.preemptive
    \/ \A q \in DOMAIN race.thr : q # r => race.thr[q].pc \notin InsideInitialiser

\* get_text_to_sql_engine: 'if _text_to_sql_engine is None'
race_test_engine ==
    /\ \E r \in DOMAIN race.thr :
        /\ race.thr[r].pc = "start"
        /\ Runnable(r)
        /\ race' = IF race._text_to_sql_engine = 0
                   THEN [race EXCEPT !.thr[r].pc = "init_engine"]
                   ELSE [race EXCEPT !.thr[r].pc = "have_engine",
                                     !.thr[r].engine = race._text_to_sql_engine,
                                     !.thr[r].client = race.engines[race._text_to_sql_engine].db_client]
    /\ UNCHANGED <<fn_call, fn_ret, trace, pipeline>>

\* TextToSQLEngine.__init__ calling get_database_client: 'if _database_client is None'
race_test_client ==
    /\ \E r \in DOMAIN race.thr :
        /\ race.thr[r].pc = "init_engine"
        /\ Runnable(r)
        /\ race' = IF race._database_client = 0
                   THEN [race EXCEPT !.thr[r].pc = "make_client"]
                   ELSE [race EXCEPT !.thr[r].pc = "assign_engine",
                                     !.thr[r].client = race._database_client]
    /\ UNCHANGED <<fn_call, fn_ret, trace, pipeline>>

\* get_database_client: '_database_client = DatabaseClient()', a client with no connection yet
race_make_client ==
    /\ \E r \in DOMAIN race.thr :
        /\ race.thr[r].pc = "make_client"
        /\ Runnable(r)
        /\ LET id == Len(race.clients) + 1
           IN  race' = [race EXCEPT !.clients = Append(@, 0),
                                    !._database_client = id,
                                    !.thr[r].client = id,
                                    !.thr[r].pc = "assign_engine"]
    /\ UNCHANGED <<fn_call, fn_ret, trace, pipeline>>

\* get_text_to_sql_engine: '_text_to_sql_engine = TextToSQLEngine()', once __init__ has returned
race_assign_engine ==
    /\ \E r \in DOMAIN race.thr :
        /\ race.thr[r].pc = "assign_engine"
        /\ Runnable(r)
        /\ LET id == Len(race.engines) + 1
           IN  race' = [race EXCEPT !.engines = Append(@, [db_client |-> race.thr[r].client]),
                                    !._text_to_sql_engine = id,
                                    !.thr[r].engine = id,
                                    !.thr[r].pc = "have_engine"]
    /\ UNCHANGED <<fn_call, fn_ret, trace, pipeline>>

\* get_pg_connection on the engine's client: 'if self._pg_connection is None'
race_test_connection ==
    /\ \E r \in DOMAIN race.thr :
        /\ race.thr[r].pc = "have_engine"
        /\ Runnable(r)
        /\ LET cached == race.clients[race.thr[r].client]
           IN  race' = IF cached = 0
                       THEN [race EXCEPT !.thr[r].pc = "connect"]
                       ELSE [race EXCEPT !.thr[r].pc = "done", !.thr[r].conn = cached]
    /\ UNCHANGED <<fn_call, fn_ret, trace, pipeline>>

\* get_pg_connection: 'self._pg_connection = psycopg2.connect(...)'
race_connect ==
    /\ \E r \in DOMAIN race.thr :
        /\ race.thr[r].pc = "connect"
        /\ Runnable(r)
        /\ LET id == race.opened + 1
           IN  race' = [race EXCEPT !.opened = id,
                                    !.clients[race.thr[r].client] = id,
                                    !.thr[r].conn = id,
                                    !.thr[r].pc = "done"]
    /\ UNCHANGED <<fn_call, fn_ret, trace, pipeline>>

InitRace ==
    /\ PipelineInit
    /\ fn_call = NoCall
    /\ fn_ret = NotReturned
    /\ trace = <<>>
    /\ race \in {RaceStart(n, p) : n \in 1..MaxRacers, p \in BOOLEAN}

NextRace ==
    \/ race_test_engine
    \/ race_test_client
    \/ race_make_client
    \/ race_assign_engine
    \/ race_test_connection
    \/ race_connect

SpecRace == InitRace /\ [][NextRace]_vars

(***************************************************************************)
(* The ContextLoader used on its own: load, reload and a lazy getter       *)
(* called in any order while the file on disk changes between calls.  The  *)
(* trace records, for each call, whether the store was marked loaded when  *)
(* it was made and whether it returned.                                    *)
(***************************************************************************)
MaxStoreCalls == 3

StoreCall(op, file, ret) ==
    [op |-> op, was_loaded |-> context_loader._loaded, ok |-> ret.ok,
     file_has_metrics |-> file.exists /\ file.well_formed /\ SEC_METRICS \in Keys(file.document)]

\* ContextLoader.load called directly, whether or not the store is marked loaded
store_load ==
    /\ Len(trace) < MaxStoreCalls
    /\ \E file \in ContextFiles :
        LET x == load(context_loader, file)
        IN  /\ context_loader' = x.loader
            /\ trace' = Append(trace, StoreCall("load", file, x.ret))
    /\ UNCHANGED <<fn_call, fn_ret, race, engine, passed_context, db, pc, caller, request, args,
                   calls, locals, stage_exc, outcome, http, prev>>

\* ContextLoader.reload
store_reload ==
    /\ Len(trace) < MaxStoreCalls
    /\ \E file \in ContextFiles :
        LET x == reload(context_loader, file)
        IN  /\ context_loader' = x.loader
            /\ trace' = Append(trace, StoreCall("reload", file, x.ret))
    /\ UNCHANGED <<fn_call, fn_ret, race, engine, passed_context, db, pc, caller, request, args,
                   calls, locals, stage_exc, outcome, http, prev>>

\* ContextLoader.get_context_for_llm: loads only when the store is not marked loaded
store_get ==
    /\ Len(trace) < MaxStoreCalls
    /\ \E file \in ContextFiles :
        LET x == get_context_for_llm(context_loader, file)
        IN  /\ context_loader' = x.loader
            /\ trace' = Append(trace, StoreCall("get_context_for_llm", file, x.ret))
    /\ UNCHANGED <<fn_call, fn_ret, race, engine, passed_context, db, pc, caller, request, args,
                   calls, locals, stage_exc, outcome, http, prev>>

NextStore ==
    \/ store_load
    \/ store_reload
    \/ store_get

SpecStore == Init /\ [][NextStore]_vars

(***************************************************************************)
(* Properties                                                              *)
(***************************************************************************)
Range(s) == {s[i] : i \in DOMAIN s}

\* the current invocation has ended (returned or raised)
Ended == pc \in {"done", "error", "responded"}

Validated == validation_result # Unset

\* C1: whenever the Safety Validator returned at least one error for the
\* synthesized SQL, the invocation has ended with a SQLValidationError whose
\* message contains every validator error, joined with ", " in the validator's
\* order, and execute_query was not called in the invocation.
C1_ValidationFailureStopsPipeline ==
    (Validated /\ Len(validation_result.errors) >= 1) =>
        /\ pc \in {"error", "responded"}
        /\ outcome.status = "raised"
        /\ outcome.exc.kind = "SQLValidationError"
        /\ \A i \in 1..Len(validation_result.errors) :
              Contains(outcome.exc.msg, validation_result.errors[i])
        /\ \A i \in 1..(Len(validation_result.errors) - 1) :
              Contains(outcome.exc.msg,
                       validation_result.errors[i] \o MSG_SEP \o validation_result.errors[i + 1])
        /\ "execute_query" \notin Range(calls)
        /\ last_exec.by # "pipeline"

\* C1 witness: DROP TABLE t produced two validator errors and the invocation
\* ended in SQLValidationError
C1_Witness ==
    /\ Validated
    /\ Len(validation_result.errors) = 2
    /\ sql_result.sql = ParseSql(R_drop)
    /\ outcome.exc.kind = "SQLValidationError"

\* C2: every SQL text the pipeline hands to execute_query starts with SELECT
\* once trimmed and upper-cased, contains none of the nine blocklisted keywords,
\* is passed without parameters, and never takes the execute-and-commit branch;
\* when the call returned rows to the pipeline it took the fetch branch.
C2_ExecutedSQLIsValidated ==
    (last_exec.by = "pipeline") =>
        /\ StartsWith(Strip(ToUpper(last_exec.sql)), KW_SELECT)
        /\ \A k \in 1..Len(dangerous_keywords) :
              ~Contains(ToUpper(last_exec.sql), dangerous_keywords[k])
        /\ last_exec.params = "None"
        /\ last_exec.branch # "commit"
        /\ ((pc = "summarize" \/ outcome.status = "returned") => last_exec.branch = "fetch")

\* C2 witness: the pipeline executed a lower-case select on the fetch branch
C2_Witness ==
    /\ last_exec.by = "pipeline"
    /\ last_exec.branch = "fetch"
    /\ last_exec.sql = ParseSql(R_lower)
    /\ last_exec.sql # ToUpper(last_exec.sql)

\* the stages of one invocation, in their fixed order
StageOrder(check_ambiguity) ==
    (IF check_ambiguity THEN <<"detect_ambiguity">> ELSE <<>>)
    \o <<"generate_sql", "_validate_sql", "execute_query", "_suggest_visualization">>

IsPrefix(s, t) == Len(s) <= Len(t) /\ SubSeq(t, 1, Len(s)) = s

\* C3: within one invocation the stages called so far are always an initial
\* part of AmbiguityCheck (only when check_ambiguity) -> Synthesize -> Validate
\* -> Execute -> Summarize, so each is called at most once and in that order;
\* an ambiguous verdict leaves the detector as the only call; and once the
\* invocation has ended no further stage of it is called.
C3_StagesInOrderOnce ==
    /\ [](args # Unset => IsPrefix(calls, StageOrder(args.check_ambiguity)))
    /\ []((ambiguity_result # Unset /\ ambiguity_result.is_ambiguous)
            => calls = <<"detect_ambiguity">>)
    /\ []((pc = "error") => (calls # <<>> /\ stage_exc # NoExc))
    /\ [][(Ended /\ calls' # calls) => calls' = <<>>]_vars

\* C3 witness: a complete invocation with the ambiguity check ran all five stages
C3_Witness ==
    /\ pc = "done"
    /\ args.check_ambiguity
    /\ calls = <<"detect_ambiguity", "generate_sql", "_validate_sql", "execute_query",
                 "_suggest_visualization">>

\* C4: when the detector reported the query ambiguous, the invocation ended
\* with an AmbiguousQueryError carrying exactly the detector's suggestions and
\* exactly its questions (the empty list when it supplied none), and neither the
\* SQL generator, the validator nor the executor was invoked.
C4_AmbiguousCarriesDetectorPayload ==
    (ambiguity_result # Unset /\ ambiguity_result.is_ambiguous) =>
        /\ args.check_ambiguity
        /\ outcome.status = "raised"
        /\ outcome.exc.kind = "AmbiguousQueryError"
        /\ outcome.exc.options = ambiguity_result.suggestions
        /\ outcome.exc.questions =
              (IF "questions" \in DOMAIN ambiguity_result
               THEN ambiguity_result.questions ELSE <<>>)
        /\ Range(calls) \cap {"generate_sql", "_validate_sql", "execute_query"} = {}
        /\ sql_result = Unset /\ validation_result = Unset /\ last_exec.by # "pipeline"

\* C4 witness: an ambiguous verdict with two structured questions was raised
C4_Witness ==
    /\ ambiguity_result # Unset
    /\ ambiguity_result.is_ambiguous
    /\ outcome.exc.kind = "AmbiguousQueryError"
    /\ Len(outcome.exc.questions) = 2

\* C5: an invocation with check_ambiguity = FALSE never calls the ambiguity
\* detector and never ends in AmbiguousQueryError.
C5_NoCheckNoAmbiguity ==
    (args # Unset /\ ~args.check_ambiguity) =>
        /\ "detect_ambiguity" \notin Range(calls)
        /\ ambiguity_result = Unset
        /\ outcome.exc.kind # "AmbiguousQueryError"

\* C5 witness: an invocation without the ambiguity check ran to its end
C5_Witness ==
    /\ args # Unset
    /\ ~args.check_ambiguity
    /\ pc = "done"
    /\ calls = <<"generate_sql", "_validate_sql", "execute_query", "_suggest_visualization">>

\* the exception was raised by the Execute stage
ExecuteFailed ==
    /\ pc \in {"error", "responded"}
    /\ outcome.status = "raised"
    /\ calls # <<>>
    /\ calls[Len(calls)] = "execute_query"

\* C6: a SQLExecutionError or a DatabaseError raised by execute_query reaches
\* the caller of process_query as that same exception, not re-wrapped.
C6_StorageFailurePropagatesUnchanged ==
    (ExecuteFailed /\ stage_exc.kind \in {"SQLExecutionError", "DatabaseError"})
        => outcome.exc = stage_exc

KnownKinds ==
    {"AmbiguousQueryError", "SQLGenerationError", "SQLValidationError", "SQLExecutionError",
     "DatabaseError"}

\* C7: an invocation that does not return a result raises exactly one
\* exception of a known kind; an exception of any other kind raised by a stage
\* is re-signalled as SQLGenerationError carrying its message; a failure
\* carries no result and a result carries no failure.
C7_OnlyKnownFailureKinds ==
    /\ (pc = "error") => outcome.status = "raised"
    /\ (pc = "done") => outcome.status = "returned"
    /\ (outcome.status = "raised") =>
          /\ outcome.exc.kind \in KnownKinds
          /\ outcome.value = Unset
          /\ (stage_exc.kind \notin KnownKinds =>
                /\ outcome.exc.kind = "SQLGenerationError"
                /\ outcome.exc.msg = MSG_PROCESS \o stage_exc.msg)
    /\ (outcome.status = "returned") => (outcome.exc = NoExc /\ stage_exc = NoExc)

\* C7 witness: an LLMError raised by the SQL generator reached the caller as
\* SQLGenerationError
C7_Witness ==
    /\ pc = "error"
    /\ stage_exc.kind = "LLMError"
    /\ calls[Len(calls)] = "generate_sql"
    /\ outcome.exc.kind = "SQLGenerationError"

\* the synthesis response yielded no SQL: the parser extracted the empty text
NoSQLExtracted == sql_result # Unset /\ sql_result.sql = <<>>

\* C8 as stated: a synthesis response from which no SQL is extracted ends the
\* invocation with SQLGenerationError.
C8_NoSQLEndsInSQLGeneration ==
    (Ended /\ NoSQLExtracted) => outcome.exc.kind = "SQLGenerationError"

\* C8 amended: a non-empty synthesis response from which no SQL is extracted
\* ends the invocation with SQLValidationError "Failed to parse SQL" without
\* reaching the executor; an empty model response or a failed model call ends
\* it with SQLGenerationError.
C8_NoSQLEndsInSQLValidation ==
    /\ (Ended /\ NoSQLExtracted) =>
          /\ outcome.status = "raised"
          /\ outcome.exc.kind = "SQLValidationError"
          /\ outcome.exc.msg = MSG_INVALID \o ERR_PARSE
          /\ "execute_query" \notin Range(calls)
    /\ (Ended /\ calls # <<>> /\ calls[Len(calls)] = "generate_sql") =>
          /\ stage_exc.kind = "LLMError"
          /\ outcome.exc.kind = "SQLGenerationError"

\* C8 witness: a response without a fenced block ended in SQLValidationError
C8_Witness ==
    /\ Ended
    /\ NoSQLExtracted
    /\ outcome.exc.kind = "SQLValidationError"

\* C9: a returned result has exactly the generator's sql, explanation and
\* metrics_used and exactly the executor's rows in their order; the QueryResult
\* the chat endpoint builds from it carries the same fields and a row_count
\* equal to the number of those rows.
C9_ResultIsFaithful ==
    /\ (outcome.status = "returned") =>
          /\ outcome.value.sql = sql_result.sql
          /\ outcome.value.explanation = sql_result.explanation
          /\ outcome.value.metrics_used = sql_result.metrics_used
          /\ outcome.value.results = results
    /\ (pc = "responded" /\ outcome.status = "returned") =>
          /\ http.status = 200
          /\ http.body.result.sql = sql_result.sql
          /\ http.body.result.explanation = sql_result.explanation
          /\ http.body.result.metrics_used = sql_result.metrics_used
          /\ http.body.result.results = results
          /\ http.body.result.row_count = Len(results)

\* C9 witness: two rows whose order matters were returned and answered with row_count 2
C9_Witness ==
    /\ pc = "responded"
    /\ outcome.status = "returned"
    /\ results = <<[k \in 1..1 |-> 2], [k \in 1..1 |-> 1]>>
    /\ http.body.result.row_count = 2
    /\ sql_result.metrics_used # <<>>

\* an invocation is being entered in this step
Entering == calls' = <<>> /\ pc' \in {"ambiguity", "synthesize"}

\* C10: no step of process_query changes the engine's semantic context or
\* collaborator references, and every invocation, whatever the previous one
\* did, starts from the same engine with fresh locals and no outcome.
C10_EngineUnchanged ==
    [][ /\ engine' = engine
        /\ Entering =>
              /\ engine' = InitEngine
              /\ ambiguity_result' = Unset /\ sql_result' = Unset
              /\ validation_result' = Unset /\ results' = Unset
              /\ stage_exc' = NoExc /\ outcome' = NoOutcome ]_vars

\* C10 witness: a failed invocation was followed by one that returned a result
C10_Witness ==
    /\ prev = "raised"
    /\ pc = "done"
    /\ engine = InitEngine

\* the text rendered when the pipeline was constructed
ConstructionContext == yaml_dump(StartupFile.document)

\* C11: every semantic_context handed to the ambiguity detector and to the SQL
\* generator is the text rendered at construction, which the engine still
\* holds, whatever the Semantic Model Store has been reloaded with since
C11_ContextRenderedOnce ==
    /\ engine.semantic_context = ConstructionContext
    /\ \A i \in DOMAIN passed_context : passed_context[i] = ConstructionContext

\* a later invocation has called both the detector and the generator after
\* the store was reloaded with another document
C11_Witness ==
    /\ prev # "none"
    /\ calls = <<"detect_ambiguity", "generate_sql">>
    /\ Len(passed_context) = 2
    /\ context_loader._loaded
    /\ yaml_dump(context_loader.context) # ConstructionContext

\* k occurs in s when the case of letters is ignored
OccursIgnoringCase(s, k) ==
    \E i \in 0..(Len(s) - Len(k)) : \A j \in 1..Len(k) : LowerChar(s[i + j]) = LowerChar(k[j])

\* the blocklisted keywords that occur in the text
KeywordsIn(sql) ==
    {k \in Range(dangerous_keywords) : OccursIgnoringCase(sql, k)}

Count(seq, x) == Cardinality({i \in DOMAIN seq : seq[i] = x})

ValidateReturned == fn_call.fn = "_validate_sql" /\ fn_ret.done

\* C12 as stated: every text in which a blocklisted keyword occurs, in any
\* case and anywhere, is invalid with one error naming each keyword that occurs
C12_EveryKeywordNamed ==
    (ValidateReturned /\ KeywordsIn(fn_call.sql) # {}) =>
        /\ ~fn_ret.value.is_valid
        /\ \A k \in KeywordsIn(fn_call.sql) : Count(fn_ret.value.errors, ERR_DANGEROUS \o k) = 1

\* C12: every text in which a blocklisted keyword occurs, in any case and
\* anywhere, is invalid; when the parser accepts the text there is one error
\* naming each keyword that occurs and none naming another keyword, and when
\* the parser itself fails the only error is the validation error
C12_EveryKeywordNamedUnlessParserFails ==
    (ValidateReturned /\ KeywordsIn(fn_call.sql) # {}) =>
        /\ ~fn_ret.value.is_valid
        /\ IF sqlparse_raises(fn_call.sql)
           THEN /\ Len(fn_ret.value.errors) = 1
                /\ StartsWith(fn_ret.value.errors[1], ERR_VALIDATION)
           ELSE \A k \in Range(dangerous_keywords) :
                    Count(fn_ret.value.errors, ERR_DANGEROUS \o k)
                        = IF k \in KeywordsIn(fn_call.sql) THEN 1 ELSE 0

\* a SELECT over a column named updated_at has been rejected for UPDATE alone
C12_Witness ==
    /\ ValidateReturned
    /\ fn_call.sql = <<"s","e","l","e","c","t"," ","a",","," ","u","p","d","a","t","e","d","_","a","t"," ","F","R","O","M"," ","t">>
    /\ fn_ret.value = [is_valid |-> FALSE, errors |-> <<ERR_DANGEROUS \o KW_UPDATE>>]

\* the trimmed text starts with SELECT in any case of letters
LeadsWithSelect(sql) ==
    LET t == Strip(sql)
    IN  /\ Len(t) >= Len(KW_SELECT)
        /\ \A j \in 1..Len(KW_SELECT) : LowerChar(t[j]) = LowerChar(KW_SELECT[j])

C14_NonSelectFlagged ==
    (ValidateReturned /\ ~LeadsWithSelect(fn_call.sql)) =>
        \E i \in DOMAIN fn_ret.value.errors : fn_ret.value.errors[i] = ERR_NOT_SELECT

\* the parser yields no statement for this text
NoStatement(sql, build) ==
    sql = <<>> \/ (build.drops_blank_statement /\ \A i \in DOMAIN sql : sql[i] \in WHITESPACE)

\* C14: a text that does not lead with SELECT gets the must-be-a-SELECT error
\* when the parser yields a statement for it; when the parser yields none (the
\* empty text, and the blank text with a parser that drops blank statements)
\* the only error is the parse failure, and when the parser itself fails the
\* only error is the validation error
C14_NonSelectFlaggedWhenParsed ==
    (ValidateReturned /\ ~LeadsWithSelect(fn_call.sql)) =>
        IF sqlparse_raises(fn_call.sql)
        THEN /\ Len(fn_ret.value.errors) = 1
             /\ StartsWith(fn_ret.value.errors[1], ERR_VALIDATION)
        ELSE IF NoStatement(fn_call.sql, fn_call.build)
        THEN fn_ret.value.errors = <<ERR_PARSE>>
        ELSE \E i \in DOMAIN fn_ret.value.errors : fn_ret.value.errors[i] = ERR_NOT_SELECT

\* a blank text kept as a statement by the parser has been flagged, along
\* with the formatting failure
C14_Witness ==
    /\ ValidateReturned
    /\ fn_call.sql = <<" "," "," ">>
    /\ ~fn_call.build.drops_blank_statement
    /\ fn_ret.value.errors = <<ERR_NOT_SELECT, ERR_FORMAT>>

\* C15: on every return path of the validator, the parse short-circuit, the
\* normal completion and the except clause, is_valid is true exactly when
\* the error list is empty
C15_ValidIffNoErrors ==
    ValidateReturned => (fn_ret.value.is_valid <=> fn_ret.value.errors = <<>>)

\* the validator has returned through its except clause
C15_Witness ==
    /\ ValidateReturned
    /\ sqlparse_raises(fn_call.sql)
    /\ ~fn_ret.value.is_valid
    /\ fn_ret.value.errors = <<ERR_VALIDATION \o MSG_TOO_DEEP>>

\* one of the words occurs in the text, in any case of letters
HasWord(sql, words) == \E w \in words : OccursIgnoringCase(sql, w)

ColumnCount(rs) == IF rs = <<>> THEN 0 ELSE Cardinality(DOMAIN rs[1])

\* rules a to f, the first that matches deciding, from the text and the two counts
RuleHint(sql, rows, columns) ==
    LET time == HasWord(sql, {W_DATE, W_MONTH, W_YEAR, W_QUARTER})
        dimension == HasWord(sql, {W_REGION, W_PRODUCT, W_SEGMENT})
        aggregate == HasWord(sql, {W_SUM, W_AVG, W_COUNT})
    IN  CASE rows = 0 -> "table"
          [] rows # 0 /\ time /\ rows > 1 -> "line"
          [] rows # 0 /\ ~(time /\ rows > 1) /\ dimension /\ rows <= 10 -> "bar"
          [] rows # 0 /\ ~(time /\ rows > 1) /\ dimension /\ rows > 10 /\ rows <= 50 -> "horizontal_bar"
          [] rows # 0 /\ ~(time /\ rows > 1) /\ ~(dimension /\ rows <= 50) /\ aggregate /\ rows <= 10 -> "bar"
          [] rows # 0 /\ ~(time /\ rows > 1) /\ ~(dimension /\ rows <= 50) /\ ~(aggregate /\ rows <= 10)
                /\ (rows > 50 \/ columns > 5) -> "table"
          [] OTHER -> "bar"

VisualizationReturned == fn_call.fn = "_suggest_visualization" /\ fn_ret.done

\* C16: the hint is what rules a to f give, the first matching rule deciding,
\* for the SQL text, the number of rows and the number of columns, whatever
\* the values in the rows; in particular a time keyword with more than one
\* row gives line whatever else the text and the counts are
C16_HintFollowsRules ==
    VisualizationReturned =>
        /\ fn_ret.value = RuleHint(fn_call.sql, Len(fn_call.results), ColumnCount(fn_call.results))
        /\ (HasWord(fn_call.sql, {W_DATE, W_MONTH, W_YEAR, W_QUARTER}) /\ Len(fn_call.results) > 1)
               => fn_ret.value = "line"

\* a text with a time keyword, a dimension keyword and an aggregate call with
\* 51 rows of 6 columns has been classified line
C16_Witness ==
    /\ VisualizationReturned
    /\ fn_call.sql = <<"S","E","L","E","C","T"," ","x",","," ","O","r","d","e","r","_","M","o","n","t","h",","," ","P","r","o","d","u","c","t",","," ","S","U","M","(","b",")">>
    /\ Len(fn_call.results) = 51
    /\ ColumnCount(fn_call.results) = 6
    /\ fn_ret.value = "line"

AmbiguityParsed == fn_call.fn = "_parse_ambiguity_response" /\ fn_ret.done

\* the value written for a key of an element
FieldOf(x, key) == x.v[CHOOSE i \in DOMAIN x.v : x.v[i].key = key].value

\* an element written as an object with the three keys and a list of at
\* least two options
WellFormed(x) ==
    /\ x.t = "dict"
    /\ \A key \in {K_question_id, K_question_text, K_options} : \E i \in DOMAIN x.v : x.v[i].key = key
    /\ FieldOf(x, K_options).t = "list"
    /\ Len(FieldOf(x, K_options).v) >= 2

\* C17: the parser returns for every response text, and the questions it
\* returns are either none or all the elements the response listed, in
\* order, each with question_id, question_text and at least two options;
\* one malformed element leaves none
C17_QuestionsAllOrNothing ==
    AmbiguityParsed =>
        LET qs == fn_ret.value.questions
            listed == fn_call.listed
        IN  /\ qs # <<>> =>
                /\ Len(qs) = Len(listed)
                /\ \A i \in DOMAIN listed :
                    /\ WellFormed(listed[i])
                    /\ qs[i].question_id = FieldOf(listed[i], K_question_id).v
                    /\ qs[i].question_text = FieldOf(listed[i], K_question_text).v
                    /\ Len(qs[i].options) = Len(FieldOf(listed[i], K_options).v)
                    /\ Len(qs[i].options) >= 2
            /\ (\E i \in DOMAIN listed : ~WellFormed(listed[i])) => qs = <<>>

\* a response listing a well-formed element followed by one with a single
\* option has been parsed to no questions at all
C17_Witness ==
    /\ AmbiguityParsed
    /\ fn_call.kind = "plain"
    /\ fn_call.listed = <<Q_period, Q_one_option>>
    /\ fn_ret.value.is_ambiguous
    /\ fn_ret.value.questions = <<>>

\* the text occurs in s exactly as written
OccursAsWritten(s, k) ==
    \E i \in 0..(Len(s) - Len(k)) : \A j \in 1..Len(k) : s[i + j] = k[j]

\* C19: the parser reports the query ambiguous exactly when the response
\* contains 'Ambiguous: Yes' as written, in that case of letters
C19_AmbiguousIffLiteral ==
    AmbiguityParsed =>
        (fn_ret.value.is_ambiguous <=> OccursAsWritten(fn_call.response, LBL_AMBIGUOUS_YES))

\* a response giving the verdict in lower case has been parsed as not ambiguous
C19_Witness ==
    /\ AmbiguityParsed
    /\ StartsWith(fn_call.response, <<"a","m","b","i","g","u","o","u","s",":"," ","y","e","s">>)
    /\ ~fn_ret.value.is_ambiguous

\* the pattern ^[a-z_]+$ of ClarificationQuestion.question_id
MatchesIdPattern(id) ==
    /\ Len(id) >= 1
    /\ \A i \in 1..Len(id) : id[i] = "_" \/ \E j \in 1..26 : LOWER[j] = id[i]

\* C18: every question that an AmbiguousQueryError carries out of
\* process_query has a question_id of lower-case letters and underscores
\* and between two and five options
C18_CarriedQuestionsMeetSchema ==
    (outcome.status = "raised" /\ outcome.exc.kind = "AmbiguousQueryError") =>
        \A i \in DOMAIN outcome.exc.questions :
            /\ MatchesIdPattern(outcome.exc.questions[i].question_id)
            /\ Len(outcome.exc.questions[i].options) >= 2
            /\ Len(outcome.exc.questions[i].options) <= 5

SqlResponseParsed ==
    fn_call.fn = "_parse_sql_response" /\ "fence" \in DOMAIN fn_call /\ fn_ret.done

\* the sql the specification allows: nothing without a fence, the trimmed
\* content of a closed block, and for a fence that is never closed either
\* nothing or the trimmed text that follows it
ExpectedSql(call) ==
    IF ~call.fence.opened THEN {<<>>}
    ELSE IF call.fence.closed THEN {Strip(call.fence.content)}
    ELSE {<<>>, Strip(call.after)}

\* C20: the parser returns for every response text; sql is the trimmed
\* content of the fenced block or empty without one, explanation the
\* trimmed text after its label up to the metrics label or the end, and
\* metrics_used the names listed after 'Metrics used:' without bullets and
\* surrounding whitespace
C20_SqlResponseFields ==
    SqlResponseParsed =>
        /\ fn_ret.value.sql \in ExpectedSql(fn_call)
        /\ fn_ret.value.explanation = Strip(fn_call.explanation)
        /\ fn_ret.value.metrics_used = fn_call.listed

\* the same with the responses whose fence is never closed left aside
SqlResponseFieldsWhenClosed ==
    (SqlResponseParsed /\ (fn_call.fence.opened => fn_call.fence.closed)) =>
        /\ fn_ret.value.sql \in ExpectedSql(fn_call)
        /\ fn_ret.value.explanation = Strip(fn_call.explanation)
        /\ fn_ret.value.metrics_used = fn_call.listed

MultiBlockParsed ==
    fn_call.fn = "_parse_sql_response" /\ "blocks" \in DOMAIN fn_call /\ fn_ret.done

\* C21: of several fenced blocks the parsed sql is the content of the first
\* block of the text, whichever blocks carry the sql tag
C21_FirstBlockUsed ==
    MultiBlockParsed => fn_ret.value.sql = fn_call.blocks[1].content

\* the first block carrying the sql tag, or the first block when none does
PreferredBlock(blocks) ==
    LET tagged == {i \in DOMAIN blocks : blocks[i].tagged}
    IN  IF tagged = {} THEN 1 ELSE CHOOSE i \in tagged : \A j \in tagged : i <= j

\* C21 (amended): of several fenced blocks the parsed sql is the content of
\* the first block carrying the sql tag, and of the first block of the text
\* only when no block carries it; no other block contributes
C21_FirstTaggedElseFirstBlock ==
    MultiBlockParsed =>
        /\ fn_ret.value.sql = fn_call.blocks[PreferredBlock(fn_call.blocks)].content
        /\ \A i \in DOMAIN fn_call.blocks :
              i # PreferredBlock(fn_call.blocks) => ~Contains(fn_ret.value.sql, fn_call.blocks[i].content)

\* an untagged block followed by a tagged one has been parsed to the second block's content
C21_Witness ==
    /\ MultiBlockParsed
    /\ ~fn_call.blocks[1].tagged
    /\ fn_call.blocks[2].tagged
    /\ fn_ret.value.sql = BlockContent(2)

AugmentReturned == fn_call.fn = "augment_query_with_clarifications" /\ fn_ret.done

\* the texts occur in s one after another, in the order given, from position start on
RECURSIVE OccurInOrder(_, _, _)
OccurInOrder(s, texts, start) ==
    IF texts = <<>> THEN TRUE
    ELSE LET at == {i \in start..(Len(s) - Len(Head(texts))) :
                        \A j \in 1..Len(Head(texts)) : s[i + j] = Head(texts)[j]}
         IN  /\ at # {}
             /\ OccurInOrder(s, Tail(texts),
                             (CHOOSE i \in at : \A k \in at : i <= k) + Len(Head(texts)))

\* question_id and selected_option of each clarification, in the order given
RECURSIVE Selections(_)
Selections(cs) ==
    IF cs = <<>> THEN <<>>
    ELSE <<Head(cs).question_id, Head(cs).selected_option>> \o Selections(Tail(cs))

\* C22: without clarifications the query comes back unchanged; with them
\* the result is the query followed by one bracketed block that lists each
\* clarification's question_id and selected_option in the order given; no
\* model call is made
C22_AugmentedQuery ==
    AugmentReturned =>
        LET q == fn_call.original_query
            cs == fn_call.clarifications
            out == fn_ret.value
            block == SubSeq(out, Len(q) + 1, Len(out))
        IN  /\ cs = <<>> => out = q
            /\ cs # <<>> =>
                /\ Len(out) > Len(q)
                /\ SubSeq(out, 1, Len(q)) = q
                /\ \E i \in 1..Len(block) :
                      /\ block[i] = "["
                      /\ \A j \in 1..(i - 1) : block[j] \in {" ", "\n"}
                /\ block[Len(block)] = "]"
                /\ OccurInOrder(block, Selections(cs), 0)
            /\ calls = <<>>

\* two clarifications have been worked into a query
C22_Witness ==
    /\ AugmentReturned
    /\ fn_call.clarifications = <<CL_metric, CL_period>>
    /\ fn_ret.value # fn_call.original_query
    /\ Len(fn_ret.value) > Len(fn_call.original_query)

PromptBuilt == fn_call.fn = "generate_sql" /\ fn_ret.done

\* C23: the prompt holds the last min(3, n) turns of the history and no
\* older one, in their order, each as a 'User:' line followed by an
\* 'Assistant:' line, and then 'Current query: ' with the query; without a
\* history it is the current-query line alone
C23_PromptHoldsLastThreeTurns ==
    PromptBuilt =>
        LET h == fn_call.conversation_history
            n == Len(h)
            k == IF n < 3 THEN n ELSE 3
            lines == Split(fn_ret.value, "\n")
            said(i, key) == IF key \in DOMAIN h[i] THEN h[i][key] ELSE <<>>
        IN  /\ lines[Len(lines)] = P_CURRENT \o fn_call.natural_language_query
            /\ n = 0 => Len(lines) = 1
            /\ n > 0 =>
                /\ Len(lines) = 2 * k + 3
                /\ \A i \in 1..k :
                      /\ lines[2 * i] = P_USER \o said(n - k + i, "user")
                      /\ lines[2 * i + 1] = P_ASSISTANT \o said(n - k + i, "assistant")
                /\ \A i \in 1..(n - k) :
                      ~OccursAsWritten(fn_ret.value, said(i, "user"))

\* a prompt has been built from a history of five turns
C23_Witness ==
    /\ PromptBuilt
    /\ Len(fn_call.conversation_history) = 5
    /\ OccursAsWritten(fn_ret.value, <<"u", "3">>)
    /\ ~OccursAsWritten(fn_ret.value, <<"u", "2">>)

ExecuteReturned == fn_call.fn = "execute_query" /\ fn_ret.done

\* the call had to open a connection and could not
ConnectFailed(call) == call.before.conn # "open" /\ ~call.driver.connect_ok

\* what the specification says of a finished call
ExecuteQueryAsSpecified ==
    LET d == fn_call.driver
        x == fn_ret.value
    IN  /\ (~ConnectFailed(fn_call) /\ d.exec = "driver_error") =>
              /\ ~x.ret.ok
              /\ x.ret.exc.kind = "SQLExecutionError"
              /\ OccursAsWritten(x.ret.exc.msg, d.msg)
              /\ x.rollback <=> x.conn = "open"
        /\ (ConnectFailed(fn_call) \/ d.exec = "other_error") =>
              /\ ~x.ret.ok
              /\ x.ret.exc.kind = "DatabaseError"
        /\ (ConnectFailed(fn_call) \/ d.exec # "ok") => ~x.ret.ok
        /\ ~x.ret.ok => x.ret.exc.kind \in {"SQLExecutionError", "DatabaseError"}

\* C24: a driver-level error makes execute_query roll back on the cached
\* connection if it is open and fail with SQLExecutionError carrying the
\* driver's message; any other error, a failed connection included, makes
\* it fail with DatabaseError; it returns no rows after an error and raises
\* nothing else
C24_ExecuteQueryFailureKinds == ExecuteReturned => ExecuteQueryAsSpecified

\* the same with the calls whose rollback fails left aside
ExecuteQueryFailureKindsWhenRollbackWorks ==
    (ExecuteReturned /\ ~(fn_call.driver.exec = "driver_error" /\ fn_call.driver.rollback_fails
                          /\ ~fn_call.driver.conn_lost /\ ~ConnectFailed(fn_call))) =>
        ExecuteQueryAsSpecified

Executions == {i \in DOMAIN trace : trace[i].op = "execute_query"}

\* a connection is made exactly by the calls that find none cached or find
\* the cached one closed, unless the server refuses it; every other call
\* runs on the cached, open connection
ConnectsWhenNeeded ==
    \A i \in Executions :
        /\ trace[i].connected <=> (trace[i].found \in {"None", "closed"} /\ ~trace[i].refused)
        /\ ~trace[i].refused => (trace[i].connected \/ trace[i].found = "open")

\* C25: over execute_query and close calls on one client a connection is
\* made exactly when none is cached or the cached one reports itself
\* closed, every execute_query runs on an open connection, and at most one
\* connection is made between two consecutive close calls
C25_OneConnectionBetweenCloses ==
    /\ ConnectsWhenNeeded
    /\ \A i, j \in Executions :
          (i < j /\ trace[i].connected /\ trace[j].connected) =>
              \E k \in (i + 1)..(j - 1) : trace[k].op = "close"

\* C25 (amended): a connection is made exactly when none is cached or the
\* cached one reports itself closed, every execute_query runs on an open
\* connection, and between two connections made there is a call or an
\* event that left the cached connection closed: a close call, a loss of
\* the connection, or a driver error under which the connection was lost
C25_ReconnectsOnlyAfterClosed ==
    /\ ConnectsWhenNeeded
    /\ \A i, j \in Executions :
          (i < j /\ trace[i].connected /\ trace[j].connected) =>
              \E k \in i..(j - 1) : trace[k].left = "closed"

\* a call made a connection, a later call reused it, the connection was then
\* lost, and the next call made a new one with no close call in between
C25_Witness ==
    /\ Len(trace) = 4
    /\ trace[1].op = "execute_query" /\ trace[1].connected /\ trace[1].left = "open"
    /\ trace[2].op = "execute_query" /\ ~trace[2].connected /\ trace[2].ok
    /\ trace[3].op = "lost"
    /\ trace[4].op = "execute_query" /\ trace[4].connected

SearchReturned == fn_call.fn = "search_metrics_by_synonym" /\ fn_ret.done

\* the metrics of the searched section, each with its category
MetricsSearched(metrics) ==
    UNION {{[category |-> metrics[c].key, name |-> metrics[c].value.metrics[m].key,
             def |-> metrics[c].value.metrics[m].value] : m \in DOMAIN metrics[c].value.metrics} :
           c \in DOMAIN metrics}

\* the criteria on which a metric matches the term
CriteriaMet(x, term) ==
    {c \in {"name", "synonym", "description"} :
        CASE c = "name" -> OccursIgnoringCase(x.name, term)
          [] c = "synonym" -> \E i \in DOMAIN x.def.synonyms :
                                  OccursIgnoringCase(x.def.synonyms[i], term)
          [] c = "description" -> OccursIgnoringCase(x.def.description, term)}

\* how often the metric is reported
TimesReported(matches, x) ==
    Cardinality({i \in DOMAIN matches :
                    matches[i].name = x.name /\ matches[i].category = x.category})

\* C26: every metric whose name, a synonym or description holds the term,
\* in any case, is returned, once for each of the three criteria it matches
C26_ReportedOncePerCriterion ==
    SearchReturned =>
        \A x \in MetricsSearched(fn_call.metrics) :
            TimesReported(fn_ret.value, x) = Cardinality(CriteriaMet(x, fn_call.query))

\* C26 (amended): every metric whose name, a synonym or description holds
\* the term, in any case, is returned exactly once, however many of the
\* three criteria it matches, and nothing else is returned
C26_ReportedOncePerMetric ==
    SearchReturned =>
        /\ \A x \in MetricsSearched(fn_call.metrics) :
              TimesReported(fn_ret.value, x) = IF CriteriaMet(x, fn_call.query) = {} THEN 0 ELSE 1
        /\ \A i \in DOMAIN fn_ret.value :
              \E x \in MetricsSearched(fn_call.metrics) :
                  /\ fn_ret.value[i].name = x.name
                  /\ fn_ret.value[i].category = x.category
                  /\ fn_ret.value[i].description = x.def.description

\* a search for 'total', which the name, a synonym and the description of
\* total_exposure all hold, has returned that metric once
C26_Witness ==
    /\ SearchReturned
    /\ fn_call.query = <<"t","o","t","a","l">>
    /\ Len(fn_call.metrics) = 1
    /\ Len(fn_ret.value) = 1
    /\ fn_ret.value[1].name = <<"t","o","t","a","l","_","e","x","p","o","s","u","r","e">>

\* C27: a chat request that the pipeline ended with an AmbiguousQueryError
\* is answered with status 400 and a body carrying the error's suggestions
\* and structured questions, whatever questions the parser produced
C27_AmbiguityAnsweredWith400 ==
    (pc = "responded" /\ caller = "chat" /\ outcome.status = "raised"
        /\ outcome.exc.kind = "AmbiguousQueryError") =>
        /\ http.status = 400
        /\ http.body.suggestions = outcome.exc.options
        /\ http.body.questions = outcome.exc.questions

\* the same for the questions that meet the response schema
AmbiguityAnsweredWith400WhenQuestionsValid ==
    (pc = "responded" /\ caller = "chat" /\ outcome.status = "raised"
        /\ outcome.exc.kind = "AmbiguousQueryError"
        /\ \A i \in DOMAIN outcome.exc.questions :
              ClarificationQuestionValid(outcome.exc.questions[i])) =>
        /\ http.status = 400
        /\ http.body.suggestions = outcome.exc.options
        /\ http.body.questions = outcome.exc.questions

\* C28: a chat request with at least one clarification runs without the
\* ambiguity check even if it asks for it, hands the pipeline the query
\* followed by the clarifications, is never answered as ambiguous, and a
\* successful answer echoes the query as the caller wrote it; a request
\* without clarifications runs on its own query with the check it asks for
C28_ClarifiedRequestIsNotAmbiguous ==
    (caller = "chat" /\ request # Unset /\ args # Unset) =>
        IF request.clarifications # <<>>
        THEN /\ ~args.check_ambiguity
             /\ Len(args.natural_language_query) > Len(request.query)
             /\ SubSeq(args.natural_language_query, 1, Len(request.query)) = request.query
             /\ \A i \in DOMAIN request.clarifications :
                   /\ OccursAsWritten(args.natural_language_query,
                                      request.clarifications[i].question_id)
                   /\ OccursAsWritten(args.natural_language_query,
                                      request.clarifications[i].selected_option)
             /\ "detect_ambiguity" \notin Range(calls)
             /\ outcome.exc.kind # "AmbiguousQueryError"
             /\ pc = "responded" =>
                   /\ http.status # 400
                   /\ http.status = 200 => http.body.query = request.query
        ELSE /\ args.natural_language_query = request.query
             /\ args.check_ambiguity = request.check_ambiguity

\* a request with clarifications that asked for the ambiguity check has been answered with a result
C28_Witness ==
    /\ pc = "responded"
    /\ caller = "chat"
    /\ request # Unset
    /\ request.clarifications # <<>>
    /\ request.check_ambiguity
    /\ http.status = 200

(***************************************************************************)
(* C29: racing first accesses to the lazily created objects                *)
(***************************************************************************)
AllSettled ==
    /\ race.thr # <<>>
    /\ \A r \in DOMAIN race.thr : race.thr[r].pc = "done"

\* setup calls beyond the one a single caller needs, for each kind of object
RedundantSetups ==
    [engine |-> Len(race.engines) - 1, client |-> Len(race.clients) - 1, connection |-> race.opened - 1]

\* the clients a later close can reach: the one the module-level reference
\* names and the one held by the engine the module-level reference names
ReachableClients ==
    (IF race._database_client = 0 THEN {} ELSE {race._database_client})
    \cup (IF race._text_to_sql_engine = 0 THEN {}
          ELSE {race.engines[race._text_to_sql_engine].db_client})

\* the connections a later close can reach
ClosableConnections == {race.clients[c] : c \in ReachableClients} \ {0}

RacingFirstAccessBounds ==
    AllSettled =>
        /\ ~race.preemptive =>
              /\ RedundantSetups = [engine |-> 0, client |-> 0, connection |-> 0]
              /\ \A c \in 1..race.opened : c \in ClosableConnections
        /\ RedundantSetups.engine < Len(race.thr)
        /\ RedundantSetups.client < Len(race.thr)
        /\ RedundantSetups.connection < Len(race.thr)
        /\ \A r \in DOMAIN race.thr :
              /\ race.thr[r].engine \in 1..Len(race.engines)
              /\ race.thr[r].client \in 1..Len(race.clients)
              /\ race.thr[r].conn \in 1..race.opened

(***************************************************************************)
(* C30: a store marked loaded holds a document with the metrics section    *)
(***************************************************************************)
HasMetrics(loader) == SEC_METRICS \in Keys(loader.context)

\* C30: whenever the store reports itself loaded its cached document
\* contains the metrics section; in particular no load or reload that fails
\* leaves the store marked loaded with a cached document lacking metrics
C30_LoadedStoreHasMetrics ==
    /\ context_loader._loaded => HasMetrics(context_loader)
    /\ (trace # <<>> /\ ~trace[Len(trace)].ok) => ~(context_loader._loaded /\ ~HasMetrics(context_loader))

\* direct load calls that failed on a store already marked loaded
FailedLoadsOverLoadedStore ==
    {i \in DOMAIN trace : trace[i].op = "load" /\ trace[i].was_loaded /\ ~trace[i].ok}

\* what does hold of the store: it is marked loaded with a document lacking
\* metrics only after such a load, and never after a reload or a lazy getter
\* as the latest call
LoadedStoreHasMetricsUnlessLoadedAgain ==
    /\ FailedLoadsOverLoadedStore = {} => (context_loader._loaded => HasMetrics(context_loader))
    /\ (trace # <<>> /\ trace[Len(trace)].op = "reload") =>
          /\ context_loader._loaded = trace[Len(trace)].ok
          /\ context_loader._loaded => HasMetrics(context_loader)

====
